---- MODULE Spec2Model ----
(***************************************************************************)
(* Model of the UDP command/event server of unified_haptics_api.py         *)
(* (class HapticsServer, signal_handler, main and the module's exit path)  *)
(* together with the module cleanups it calls (haptics_gloves,             *)
(* haptics_pattern_player, array_example).                                 *)
(*                                                                         *)
(* Scheduling: one asyncio event loop.  A coroutine runs without           *)
(* interruption from one await that really suspends (sock_recv,            *)
(* asyncio.sleep) to the next, so each such stretch is one action.  Tasks  *)
(* made with create_task / call_soon_threadsafe run in creation order      *)
(* (the variable ready); socket readiness, timers and the SIGINT handler   *)
(* occur at any moment between two stretches.                              *)
(*                                                                         *)
(* Environment: event_loop.sock_getpeername is taken to return the source  *)
(* address of the datagram just received; player.* and                     *)
(* haptics_motor_control.* are external and modelled by what the server    *)
(* observes of them (a call is made, it returns or it raises).             *)
(***************************************************************************)
EXTENDS Integers, Sequences, FiniteSets, TLC

(* ------------------------------ bounds --------------------------------- *)
\* external inputs of one run: datagrams on either socket, SIGINT deliveries
\* and broadcast timer ticks
MaxInputs == 2
\* longest pattern list of a play_custom_pattern command
MaxCustomSteps == 1

(* ------------------------- program constants --------------------------- *)
\* len(WAVE_PATTERN), len(ALTERNATING_PATTERN)
WaveSteps == 5
AlternatingSteps == 4

\* haptics_pattern_player.running: assigned only by that module's own
\* signal_handler, which is installed only when the module runs as a script
pattern_player_running == TRUE

Addrs == {"a1", "a2"}
NoAddr == "noaddr"
\* client_id defaults to "host:port" of the source address
DerivedId(addr) == addr
\* the addresses datagrams without a client_id come from
AnonymousAddrs == {"a1"}
ClientIds == {"c1"} \cup {DerivedId(a) : a \in AnonymousAddrs}
NoClient == "noclient"
NoId == "noid"
GivenIds == {"k1"}
\* str(uuid.uuid4()): the n-th generated id
UuidOf == <<"u1", "u2", "u3", "u4", "u5", "u6">>
EventTypes == {"pattern_complete", "pattern_error"}
PlayCommands == {"play_wave_pattern", "play_alternating_pattern", "play_custom_pattern"}
command_handlers ==
    {"ping", "register_event_callback", "unregister_event_callback", "shutdown",
     "play_pattern", "activate_discrete", "activate_funnelling", "activate_glove_motor",
     "stop_pattern"}
        \cup PlayCommands

(* ----------------------------- JSON values ----------------------------- *)
\* A value of a params field as json.loads returns it.  t: "missing" (the key
\* is absent), "null", "bool", "int", "float", "str"; s: the text of a string;
\* n: the number (tenths for a float, 1/0 for true/false).
JMissing == [t |-> "missing", s |-> "", n |-> 0]
JNull == [t |-> "null", s |-> "", n |-> 0]
JStr(s) == [t |-> "str", s |-> s, n |-> 0]
JInt(n) == [t |-> "int", s |-> "", n |-> n]
JBool(b) == [t |-> "bool", s |-> "", n |-> IF b THEN 1 ELSE 0]
JFloat(tenths) == [t |-> "float", s |-> "", n |-> tenths]
\* bool(v) for the values above
Truthy(v) ==
    CASE v.t \in {"missing", "null"} -> FALSE
      [] v.t = "str" -> v.s # ""
      [] OTHER -> v.n # 0
ArgNames == {"message", "pattern_file", "panel", "glove", "motor_index", "intensity",
             "duration_ms", "x", "y", "key"}
NoArgs == [a \in ArgNames |-> JMissing]
\* params.get(key, default)
Default(v, d) == IF v.t = "missing" THEN d ELSE v
\* isinstance(v, int): bool is a subclass of int
IsInstanceInt(v) == v.t \in {"int", "bool"}
\* isinstance(v, (int, float))
IsInstanceNumber(v) == v.t \in {"int", "bool", "float"}
\* v in [a, b] for strings a, b
IsOneOf(v, names) == v.t = "str" /\ v.s \in names
\* 0 <= v <= 1 for a number (a float is held in tenths)
InUnitInterval(v) == IF v.t = "float" THEN 0 <= v.n /\ v.n <= 10 ELSE 0 <= v.n /\ v.n <= 1

VARIABLES
    running,              \* unified_haptics_api.running
    cleanup_done,         \* unified_haptics_api.cleanup_done
    current_clients,      \* client_id -> address (NoAddr: no entry)
    active_command_ids,   \* the keys of active_command_ids
    event_handlers,       \* event type -> set of client ids
    server_socket,        \* "open" | "closed"
    discovery_socket,     \* "open" | "closed"
    destroy_calls,        \* number of player.destroy() invocations so far
    gloves_cleanup_done,  \* haptics_gloves.cleanup_done
    array_cleanup_done,   \* array_example.cleanup_done
    ready,                \* event loop's queue of created, not yet run, tasks
    tasks,                \* playback tasks, in spawn order
    main_pc,              \* main(): "loop" | "returned" | "closed" | "finished"
    commands_pc,          \* handle_commands: "recv" | "done"
    discovery_pc,         \* handle_discovery: "recv" | "sleep" | "done"
    broadcast_pc,         \* broadcast_status_updates: "sleep" | "done"
    exited,               \* os._exit(0) has run
    counts,               \* inputs consumed so far (bounds the run)
    effects,              \* what the last step did, in program order
    player_ws,            \* player.ws: "none" | "conn"
    connection,           \* the websocket: "absent" | "open" | "closed"
    thread_should_exit,   \* haptics_pattern_player.thread_should_exit
    receiver_thread,      \* custom_thread_function's position and loaded handle
    module_cleanup,       \* the module cleanups in progress, statement by statement
    connected_clients,    \* haptics_bridge.connected_clients
    bridge,               \* haptics_bridge: running, sock, main()'s position, cleanup() calls
    bridge_threads        \* haptics_bridge's message and playback threads, in start order

vars == <<running, cleanup_done, current_clients, active_command_ids, event_handlers,
          server_socket, discovery_socket, destroy_calls, gloves_cleanup_done,
          array_cleanup_done, ready, tasks, main_pc, commands_pc, discovery_pc,
          broadcast_pc, exited, counts, effects, player_ws, connection,
          thread_should_exit, receiver_thread, module_cleanup, connected_clients,
          bridge, bridge_threads>>

(* ------------------------------ effects -------------------------------- *)
\* One observable thing a step did.  op: "sendto" | "dispatch" | "emit" |
\* "set_running" | "close" | "cleanup" | "destroy" | "adapter" | "stop" | "exit"
Eff(op, x, y, to, r, ok) == [op |-> op, x |-> x, y |-> y, to |-> to, r |-> r, ok |-> ok]

\* socket.sendto on the command socket: raises when the socket is closed or the
\* network refuses the destination (net.bad)
SendOk(net, addr) == net.sock = "open" /\ addr \notin net.bad

\* adapter: what a call into the haptics modules does in this step: returns
\* "true" or "false", or "raise"
Net(bad) == [sock |-> server_socket, bad |-> bad, adapter |-> "true"]


(* --------------------- responses (lines 381-453) ----------------------- *)
\* The part of the state a command or a playback step reads and writes:
\* s.clients, s.active, s.eh, s.running, s.eff (effects so far),
\* s.spawn (playback tasks created), s.exitq (os._exit callback scheduled).
World == [clients |-> current_clients, active |-> active_command_ids,
          eh |-> event_handlers, running |-> running, eff |-> <<>>,
          spawn |-> <<>>, exitq |-> FALSE]

\* (variant: the command id is never popped)
send_response_keeps_entry(s, net, r, client_id, command_id) ==
    LET addr == s.clients[client_id] IN
    IF addr = NoAddr THEN s
    ELSE [s EXCEPT !.eff = Append(@, Eff("sendto", "response", command_id, addr, r,
                                         SendOk(net, addr)))]

\* send_response: unknown client -> return; sendto; then pop the command id.
\* An exception of sendto is caught and logged, and the pop is skipped.
send_response(s, net, r, client_id, command_id) ==
    LET addr == s.clients[client_id] IN
    IF addr = NoAddr THEN s
    ELSE IF SendOk(net, addr)
         THEN [s EXCEPT !.eff = Append(@, Eff("sendto", "response", command_id, addr, r, TRUE)),
                        !.active = @ \ {command_id}]
         ELSE [s EXCEPT !.eff = Append(@, Eff("sendto", "response", command_id, addr, r, FALSE))]

\* (variant: the error envelope goes out and the command id stays tracked)
send_error_response_keeps_entry(s, net, msg, client_id, command_id) ==
    LET addr == s.clients[client_id] IN
    IF addr = NoAddr THEN s
    ELSE [s EXCEPT !.eff = Append(@, Eff("sendto", "error", command_id, addr, msg,
                                         SendOk(net, addr)))]

\* send_error_response: the same shape, envelope type "error"
send_error_response(s, net, msg, client_id, command_id) ==
    LET addr == s.clients[client_id] IN
    IF addr = NoAddr THEN s
    ELSE IF SendOk(net, addr)
         THEN [s EXCEPT !.eff = Append(@, Eff("sendto", "error", command_id, addr, msg, TRUE)),
                        !.active = @ \ {command_id}]
         ELSE [s EXCEPT !.eff = Append(@, Eff("sendto", "error", command_id, addr, msg, FALSE))]

(* ------------------------ events (lines 801-837) ----------------------- *)
RECURSIVE SetToSeq(_)
SetToSeq(S) == IF S = {} THEN <<>>
               ELSE LET x == CHOOSE y \in S : TRUE IN <<x>> \o SetToSeq(S \ {x})

\* the clients _send_event iterates over
EventClients(eh, event_type, target_client_id) ==
    IF target_client_id = NoClient
    THEN eh[event_type]
    ELSE IF target_client_id \in eh[event_type] THEN {target_client_id} ELSE {}

RECURSIVE SendEventTo(_, _, _, _, _)
SendEventTo(s, net, event_type, command_id, cs) ==
    IF cs = <<>> THEN s
    ELSE LET addr == s.clients[Head(cs)]
             s1 == IF addr = NoAddr THEN s
                   ELSE [s EXCEPT !.eff = Append(@, Eff("sendto", "event", command_id, addr,
                                                        event_type, SendOk(net, addr)))]
         IN SendEventTo(s1, net, event_type, command_id, Tail(cs))

\* _send_event: the call itself is recorded as "emit" (it never raises: the
\* send is inside its own try)
send_event(s, net, event_type, command_id, target_client_id) ==
    SendEventTo([s EXCEPT !.eff = Append(@, Eff("emit", event_type, command_id,
                                                 target_client_id, "-", TRUE))],
                net, event_type, command_id,
                SetToSeq(EventClients(s.eh, event_type, target_client_id)))

(* ------------------------------ handlers ------------------------------- *)
\* A handler's outcome: the state it leaves, and ret = "result" (a mapping, with
\* its success flag in res), "none" (returns None) or "raise" (an exception
\* leaves the handler).  params.map is FALSE when params is no mapping, and
\* then the first params.get raises AttributeError.
Out(s, ret, res) == [s |-> s, ret |-> ret, res |-> res]

\* the handler is entered with these params (bookkeeping of the model)
Called(s, name, params) ==
    [s EXCEPT !.eff = Append(@, Eff("call", name, params.args, "-", "-", TRUE))]

\* (variant: the pong carries an empty echo whatever the message)
handle_ping_no_echo(s, net, params, client_id, command_id) ==
    IF ~params.map THEN Out(s, "raise", "AttributeError")
    ELSE Out(Called(s, "handle_ping", params), "result",
             [success |-> TRUE, message |-> "Pong", echo |-> JStr("")])

\* handle_ping (595-602): the result echoes params.get("message", "")
handle_ping(s, net, params, client_id, command_id) ==
    IF ~params.map THEN Out(s, "raise", "AttributeError")
    ELSE Out(Called(s, "handle_ping", params), "result",
             [success |-> TRUE, message |-> "Pong",
              echo |-> Default(params.args.message, JStr(""))])

\* handle_register_event_callback (643-678): after the event_type check the body
\* reads duration_ms, a name bound nowhere: NameError
handle_register_event_callback(s, net, params, client_id, command_id) ==
    IF ~params.map THEN Out(s, "raise", "AttributeError")
    ELSE IF params.event_type = "" THEN Out(s, "result", "failure")
    ELSE Out(s, "raise", "NameError")

\* the handler is entered with this event_type (bookkeeping of the model)
Unregistering(s, params, client_id) ==
    [s EXCEPT !.eff = Append(@, Eff("call", "handle_unregister_event_callback",
                                    params.event_type, client_id, "-", TRUE))]

\* (variant: naming one event type unsubscribes the client from all of them)
handle_unregister_event_callback_from_all(s, net, params, client_id, command_id) ==
    IF ~params.map THEN Out(s, "raise", "AttributeError")
    ELSE LET s1 == Unregistering(s, params, client_id) IN
    IF params.event_type = ""
    THEN Out([s1 EXCEPT !.eh = [e \in EventTypes |-> s.eh[e] \ {client_id}]],
             "result", "success")
    ELSE IF params.event_type \in EventTypes /\ client_id \in s.eh[params.event_type]
    THEN Out([s1 EXCEPT !.eh = [e \in EventTypes |-> s.eh[e] \ {client_id}]],
             "result", "success")
    ELSE Out(s1, "result", "failure")

\* handle_unregister_event_callback (1278-1313): a falsy event_type (absent or
\* empty) unsubscribes the client from every event type
handle_unregister_event_callback(s, net, params, client_id, command_id) ==
    IF ~params.map THEN Out(s, "raise", "AttributeError")
    ELSE LET s1 == Unregistering(s, params, client_id) IN
    IF params.event_type = ""
    THEN Out([s1 EXCEPT !.eh = [e \in EventTypes |-> s.eh[e] \ {client_id}]],
             "result", "success")
    ELSE IF params.event_type \in EventTypes /\ client_id \in s.eh[params.event_type]
    THEN Out([s1 EXCEPT !.eh[params.event_type] = @ \ {client_id}], "result", "success")
    ELSE Out(s1, "result", "failure")

\* (variant: the flag is toggled instead of cleared)
initiate_shutdown_flipped(s, force) ==
    IF force THEN [s EXCEPT !.exitq = TRUE, !.eff = Append(@, Eff("call_soon", "exit", "-", "-", "-", TRUE))]
    ELSE [s EXCEPT !.running = ~s.running, !.eff = Append(@, Eff("set_running", "-", "-", "-", "-", TRUE))]

\* (variant: a graceful shutdown also forgets the clients)
initiate_shutdown_clearing(s, force) ==
    IF force THEN [s EXCEPT !.exitq = TRUE, !.eff = Append(@, Eff("call_soon", "exit", "-", "-", "-", TRUE))]
    ELSE [s EXCEPT !.running = FALSE, !.clients = [c \in ClientIds |-> NoAddr],
                   !.eff = Append(@, Eff("set_running", "-", "-", "-", "-", TRUE))]

\* initiate_shutdown (1340-1355): force -> os._exit(0) is scheduled on the loop;
\* otherwise running = False
initiate_shutdown(s, force) ==
    IF force THEN [s EXCEPT !.exitq = TRUE, !.eff = Append(@, Eff("call_soon", "exit", "-", "-", "-", TRUE))]
    ELSE [s EXCEPT !.running = FALSE, !.eff = Append(@, Eff("set_running", "-", "-", "-", "-", TRUE))]

\* (variant: the shutdown is initiated before the response is sent)
handle_shutdown_late_response(s, net, params, client_id, command_id) ==
    IF ~params.map THEN Out(s, "raise", "AttributeError")
    ELSE Out(send_response(initiate_shutdown(s, params.force), net,
                           "success", client_id, command_id), "none", "-")

\* handle_shutdown (1315-1338): respond, then initiate, then return None
\* (variant: the handler returns its result mapping instead of None)
handle_shutdown_returning_result(s, net, params, client_id, command_id) ==
    IF ~params.map THEN Out(s, "raise", "AttributeError")
    ELSE Out(initiate_shutdown(send_response(s, net, "success", client_id, command_id),
                               params.force), "result", "success")

handle_shutdown(s, net, params, client_id, command_id) ==
    IF ~params.map THEN Out(s, "raise", "AttributeError")
    ELSE Out(initiate_shutdown(send_response(s, net, "success", client_id, command_id),
                               params.force), "none", "-")

\* handle_play_wave_pattern (885-901), handle_play_alternating_pattern (939-955):
\* create the playback task, return "started".  They never read params.
Spawn(s, kind, total, client_id, command_id) ==
    [s EXCEPT !.spawn = Append(@, [kind |-> kind, total |-> total, client |-> client_id])]

\* (variant: the first step is played by the handler itself)
handle_play_wave_pattern_inline(s, net, params, client_id, command_id) ==
    Out(Spawn([s EXCEPT !.eff = Append(@, Eff("adapter", "activate_motor_array", "wave",
                                              "-", "-", TRUE))],
              "wave", WaveSteps, client_id, command_id), "result", "success")

handle_play_wave_pattern(s, net, params, client_id, command_id) ==
    Out(Spawn(s, "wave", WaveSteps, client_id, command_id), "result", "success")

handle_play_alternating_pattern(s, net, params, client_id, command_id) ==
    Out(Spawn(s, "alternating", AlternatingSteps, client_id, command_id), "result", "success")

\* handle_play_custom_pattern (993-1026): params.steps is len(pattern), 0 for a
\* missing, empty or non-list pattern
handle_play_custom_pattern(s, net, params, client_id, command_id) ==
    IF ~params.map THEN Out(s, "raise", "AttributeError")
    ELSE IF params.steps = 0 THEN Out(s, "result", "failure")
    ELSE Out(Spawn(s, "custom", params.steps, client_id, command_id), "result", "success")

\* a handler's error result
Failure(error) == [success |-> FALSE, error |-> error]

\* A call of hmc_activate_discrete, hmc_activate_funnelling or
\* activate_glove_motor: given are the params the handler received, passed the
\* arguments of the call.  The function returns True or False or raises.
adapter_call(s, net, name, given, passed, failed) ==
    CASE net.adapter = "true" ->
            Out([s EXCEPT !.eff = Append(@, Eff("adapter", name, given, "-", passed, TRUE))],
                "result", [success |-> TRUE, error |-> ""])
      [] net.adapter = "false" ->
            Out([s EXCEPT !.eff = Append(@, Eff("adapter", name, given, "-", passed, TRUE))],
                "result", Failure(failed))
      [] net.adapter = "raise" ->
            Out([s EXCEPT !.eff = Append(@, Eff("adapter", name, given, "-", passed, FALSE))],
                "raise", "Exception")

\* handle_activate_discrete (1357-1414)
handle_activate_discrete(s, net, params, client_id, command_id) ==
    IF ~params.map THEN Out(s, "raise", "AttributeError")
    ELSE
      LET panel == params.args.panel
          motor_index == params.args.motor_index
          intensity == Default(params.args.intensity, JInt(100))
          duration_ms == Default(params.args.duration_ms, JInt(500))
          s1 == Called(s, "handle_activate_discrete", params)
      IN IF ~IsOneOf(panel, {"front", "back"})
         THEN Out(s1, "result", Failure("Panel must be 'front' or 'back'"))
         ELSE IF ~IsInstanceInt(motor_index) \/ ~(0 <= motor_index.n /\ motor_index.n <= 19)
         THEN Out(s1, "result", Failure("Motor index must be an integer between 0 and 19"))
         ELSE IF ~IsInstanceInt(intensity) \/ ~(0 <= intensity.n /\ intensity.n <= 100)
         THEN Out(s1, "result", Failure("Intensity must be an integer between 0 and 100"))
         ELSE IF ~IsInstanceInt(duration_ms) \/ duration_ms.n <= 0
         THEN Out(s1, "result", Failure("Duration must be a positive integer"))
         ELSE adapter_call(s1, net, "hmc_activate_discrete", params.args,
                           [panel |-> panel, motor_index |-> motor_index,
                            intensity |-> intensity, duration_ms |-> duration_ms],
                           "Failed to activate motor")

\* handle_activate_glove_motor (680-737)
handle_activate_glove_motor(s, net, params, client_id, command_id) ==
    IF ~params.map THEN Out(s, "raise", "AttributeError")
    ELSE
      LET glove == params.args.glove
          motor_index == params.args.motor_index
          intensity == Default(params.args.intensity, JInt(100))
          duration_ms == Default(params.args.duration_ms, JInt(500))
          s1 == Called(s, "handle_activate_glove_motor", params)
      IN IF ~IsOneOf(glove, {"left", "right"})
         THEN Out(s1, "result", Failure("Glove must be 'left' or 'right'"))
         ELSE IF ~IsInstanceInt(motor_index) \/ ~(0 <= motor_index.n /\ motor_index.n <= 5)
         THEN Out(s1, "result", Failure("Motor index must be an integer between 0 and 5"))
         ELSE IF ~IsInstanceInt(intensity) \/ ~(0 <= intensity.n /\ intensity.n <= 100)
         THEN Out(s1, "result", Failure("Intensity must be an integer between 0 and 100"))
         ELSE IF ~IsInstanceInt(duration_ms) \/ duration_ms.n <= 0
         THEN Out(s1, "result", Failure("Duration must be a positive integer"))
         ELSE adapter_call(s1, net, "activate_glove_motor", params.args,
                           [glove |-> glove, motor_index |-> motor_index,
                            intensity |-> intensity, duration_ms |-> duration_ms],
                           "Failed to activate glove motor")

\* handle_activate_funnelling (1416-1482)
handle_activate_funnelling(s, net, params, client_id, command_id) ==
    IF ~params.map THEN Out(s, "raise", "AttributeError")
    ELSE
      LET panel == params.args.panel
          x == params.args.x
          y == params.args.y
          intensity == Default(params.args.intensity, JInt(100))
          duration_ms == Default(params.args.duration_ms, JInt(500))
          s1 == Called(s, "handle_activate_funnelling", params)
      IN IF ~IsOneOf(panel, {"front", "back"})
         THEN Out(s1, "result", Failure("Panel must be 'front' or 'back'"))
         ELSE IF ~IsInstanceNumber(x) \/ ~InUnitInterval(x)
         THEN Out(s1, "result", Failure("X coordinate must be a number between 0.0 and 1.0"))
         ELSE IF ~IsInstanceNumber(y) \/ ~InUnitInterval(y)
         THEN Out(s1, "result", Failure("Y coordinate must be a number between 0.0 and 1.0"))
         ELSE IF ~IsInstanceInt(intensity) \/ ~(0 <= intensity.n /\ intensity.n <= 100)
         THEN Out(s1, "result", Failure("Intensity must be an integer between 0 and 100"))
         ELSE IF ~IsInstanceInt(duration_ms) \/ duration_ms.n <= 0
         THEN Out(s1, "result", Failure("Duration must be a positive integer"))
         ELSE adapter_call(s1, net, "hmc_activate_funnelling", params.args,
                           [panel |-> panel, x |-> x, y |-> y,
                            intensity |-> intensity, duration_ms |-> duration_ms],
                           "Failed to activate funnelling effect")

\* handle_play_pattern (739-767): a falsy pattern_file is refused; otherwise
\* the _play_pattern_async task is created and "started" returned
handle_play_pattern(s, net, params, client_id, command_id) ==
    IF ~params.map THEN Out(s, "raise", "AttributeError")
    ELSE IF ~Truthy(params.args.pattern_file)
    THEN Out(s, "result", Failure("Missing pattern_file parameter"))
    ELSE Out(Spawn(s, "tact", 0, client_id, command_id), "result", "success")

\* handle_stop_pattern (839-860): player.stop_key(key) for a truthy key,
\* player.stop_all() otherwise, outside any try block; the result is success
\* whatever the call returned
handle_stop_pattern(s, net, params, client_id, command_id) ==
    IF ~params.map THEN Out(s, "raise", "AttributeError")
    ELSE
      LET key == params.args.key
          name == IF Truthy(key) THEN "stop_key" ELSE "stop_all"
          s1 == Called(s, "handle_stop_pattern", params)
      IN IF net.adapter = "raise"
         THEN Out([s1 EXCEPT !.eff = Append(@, Eff("adapter", name, params.args, "-",
                                                   [key |-> key], FALSE))],
                  "raise", "Exception")
         ELSE Out([s1 EXCEPT !.eff = Append(@, Eff("adapter", name, params.args, "-",
                                                   [key |-> key], TRUE))],
                  "result", [success |-> TRUE, error |-> ""])

\* the dispatch table (_setup_command_handlers, 124-163) applied to a command
Handle(s, net, command, params, client_id, command_id) ==
    CASE command = "ping" -> handle_ping(s, net, params, client_id, command_id)
      [] command = "register_event_callback" ->
            handle_register_event_callback(s, net, params, client_id, command_id)
      [] command = "unregister_event_callback" ->
            handle_unregister_event_callback(s, net, params, client_id, command_id)
      [] command = "shutdown" -> handle_shutdown(s, net, params, client_id, command_id)
      [] command = "play_wave_pattern" ->
            handle_play_wave_pattern(s, net, params, client_id, command_id)
      [] command = "play_alternating_pattern" ->
            handle_play_alternating_pattern(s, net, params, client_id, command_id)
      [] command = "play_custom_pattern" ->
            handle_play_custom_pattern(s, net, params, client_id, command_id)
      [] command = "play_pattern" ->
            handle_play_pattern(s, net, params, client_id, command_id)
      [] command = "activate_discrete" ->
            handle_activate_discrete(s, net, params, client_id, command_id)
      [] command = "activate_funnelling" ->
            handle_activate_funnelling(s, net, params, client_id, command_id)
      [] command = "activate_glove_motor" ->
            handle_activate_glove_motor(s, net, params, client_id, command_id)
      [] command = "stop_pattern" ->
            handle_stop_pattern(s, net, params, client_id, command_id)

(* -------------------- process_command (lines 292-379) ------------------ *)
\* d: the datagram.  d.utf8 = FALSE: data.decode('utf-8') raises
\* UnicodeDecodeError, which only the generic except clause catches; its second
\* decoding fails as well, no command_id is found and nothing is sent.
\* d.json = FALSE: json.loads raises JSONDecodeError.
\* uuid: the id str(uuid.uuid4()) would give.
\* (variant: an unknown client is not entered into the registry)
register_client_skipped(s, client_id, addr) == s

\* process_command, lines 310-313: a client_id the registry does not hold is
\* entered with the datagram's source address
register_client(s, client_id, addr) ==
    IF s.clients[client_id] = NoAddr THEN [s EXCEPT !.clients[client_id] = addr] ELSE s

process_command(s, net, d, uuid) ==
    IF ~d.utf8
    THEN [s EXCEPT !.eff = Append(@, Eff("raise", "UnicodeDecodeError", "process_command",
                                         d.addr, "-", FALSE))]
    ELSE IF ~d.json
    THEN [s EXCEPT !.eff = @ \o <<Eff("raise", "JSONDecodeError", "process_command",
                                      d.addr, "-", FALSE),
                                  Eff("sendto", "error", NoId, d.addr,
                                      "Invalid JSON format", SendOk(net, d.addr))>>]
    ELSE
      LET command_id == IF d.cid = NoId THEN uuid ELSE d.cid
          client_id  == IF d.client = NoClient THEN DerivedId(d.addr) ELSE d.client
          s1 == register_client(s, client_id, d.addr)
          s2 == [s1 EXCEPT !.active = @ \cup {command_id},
                           !.eff = Append(@, Eff("dispatch", d.cmd, command_id, client_id,
                                                 IF d.params.force THEN "force" ELSE "-", TRUE))]
      IN IF d.cmd \in command_handlers
         THEN LET h == Handle(s2, net, d.cmd, d.params, client_id, command_id) IN
              CASE h.ret = "result" -> send_response(h.s, net, h.res, client_id, command_id)
                [] h.ret = "none" -> h.s
                [] h.ret = "raise" ->
                     \* except Exception: the error is answered only when the
                     \* request itself carried a command_id
                     LET s3 == [h.s EXCEPT !.eff = Append(@, Eff("raise", h.res, "handler",
                                                                client_id, "-", FALSE))]
                     IN IF d.cid # NoId
                        THEN send_error_response(s3, net, "Error processing command",
                                                 client_id, d.cid)
                        ELSE s3
         ELSE send_error_response(s2, net, "Unknown command: " \o d.cmd, client_id, command_id)


(* --------------- playback tasks (903-937, 957-991, 1028-1065) ---------- *)
\* One stretch of _play_wave_pattern_async / _play_alternating_pattern_async /
\* _play_custom_pattern_async, from a resumption to the next asyncio.sleep or
\* to the end.  task.step counts the activate_motor_array calls made; it is a
\* local of the coroutine: once the coroutine has ended only its kind and
\* client, and emitted and outcome (bookkeeping of the model), are kept.
\* raises: activate_motor_array raises in this step.
NewTask(sp) == [kind |-> sp.kind, total |-> sp.total, client |-> sp.client,
                pc |-> "ready", step |-> 0, emitted |-> <<>>, outcome |-> "-"]

\* (variant: the completion is announced once more on the way out)
Finish_twice(s, net, task, event_type, outcome) ==
    [s |-> send_event(send_event(s, net, event_type, task.kind, task.client),
                      net, event_type, task.kind, task.client),
     task |-> [task EXCEPT !.pc = "done", !.step = 0, !.total = 0,
                           !.emitted = <<event_type, event_type>>,
                           !.outcome = outcome]]

Finish(s, net, task, event_type, outcome) ==
    [s |-> send_event(s, net, event_type, task.kind, task.client),
     task |-> [task EXCEPT !.pc = "done", !.step = 0, !.total = 0,
                           !.emitted = Append(@, event_type),
                           !.outcome = outcome]]

\* (variant: the loop never looks at the run flag)
playback_step_unchecked(s, net, task, raises) ==
    IF task.step = task.total
    THEN Finish(s, net, task, "pattern_complete", "completed")
    ELSE IF raises
    THEN Finish([s EXCEPT !.eff = Append(@, Eff("adapter", "activate_motor_array", task.kind,
                                                 "-", "-", FALSE))],
                net, task, "pattern_error", "failed")
    ELSE [s |-> [s EXCEPT !.eff = Append(@, Eff("adapter", "activate_motor_array", task.kind,
                                                 "-", "-", TRUE))],
          task |-> [task EXCEPT !.pc = "sleeping", !.step = @ + 1]]

playback_step(s, net, task, raises) ==
    IF task.step = task.total
    THEN \* the for loop is exhausted
         Finish(s, net, task, "pattern_complete", "completed")
    ELSE IF ~s.running
    THEN \* if not running: break -- and the code after the loop still runs
         Finish(s, net, task, "pattern_complete", "aborted")
    ELSE IF raises
    THEN Finish([s EXCEPT !.eff = Append(@, Eff("adapter", "activate_motor_array", task.kind,
                                                 "-", "-", FALSE))],
                net, task, "pattern_error", "failed")
    ELSE [s |-> [s EXCEPT !.eff = Append(@, Eff("adapter", "activate_motor_array", task.kind,
                                                 "-", "-", TRUE))],
          task |-> [task EXCEPT !.pc = "sleeping", !.step = @ + 1]]

(* ------------------- tact-file playback (769-799) ---------------------- *)
\* _play_pattern_async calls load_and_play_tact_file(keep_alive=False)
\* (haptics_pattern_player.py 186-364) as an ordinary function: the call and
\* its monitoring loop, which sleeps with time.sleep, run inside the event
\* loop's thread, and no other coroutine runs until the call returns.
\* begin: "monitor" (the pattern was submitted and the monitoring loop is
\* entered), "return" (initialisation or submission failed inside the
\* function, which returns), "raise" (an exception leaves the function).
tact_start(s, net, task, begin) ==
    CASE begin = "raise" ->
            Finish([s EXCEPT !.eff = Append(@, Eff("adapter", "load_and_play_tact_file", "tact",
                                                    "-", "-", FALSE))],
                   net, task, "pattern_error", "failed")
      [] begin = "return" ->
            Finish([s EXCEPT !.eff = Append(@, Eff("adapter", "load_and_play_tact_file", "tact",
                                                    "-", "-", TRUE))],
                   net, task, "pattern_complete", "completed")
      [] begin = "monitor" ->
            [s |-> [s EXCEPT !.eff = Append(@, Eff("adapter", "submit_registered", "tact",
                                                    "-", "-", TRUE))],
             task |-> [task EXCEPT !.pc = "polling"]]

\* one iteration of the monitoring loop (331-364): "while running" reads the
\* pattern player's own flag; is_playing: what player.is_playing_key answers.
\* The loop is left when the pattern has stopped playing.
tact_poll(s, net, task, is_playing) ==
    IF ~pattern_player_running
    THEN Finish(s, net, task, "pattern_complete", "aborted")
    ELSE IF is_playing
    THEN [s |-> [s EXCEPT !.eff = Append(@, Eff("poll", "is_playing_key", "tact", "-", "-",
                                                 TRUE))],
          task |-> task]
    ELSE Finish([s EXCEPT !.eff = Append(@, Eff("poll", "is_playing_key", "tact", "-", "-",
                                                 FALSE))],
                net, task, "pattern_complete", "completed")

(* ----------------------- shutdown (lines 536-591) ---------------------- *)
\* The resources stop() works on.
Resources == [cleanup_done |-> cleanup_done, server_socket |-> server_socket,
              discovery_socket |-> discovery_socket, destroy_calls |-> destroy_calls,
              gloves_cleanup_done |-> gloves_cleanup_done,
              array_cleanup_done |-> array_cleanup_done, eff |-> <<>>]

Did(r, op, x) == [r EXCEPT !.eff = Append(@, Eff(op, x, "-", "-", "-", TRUE))]

\* player.destroy()
destroy(r, by) == [Did(r, "destroy", by) EXCEPT !.destroy_calls = @ + 1]

\* haptics_gloves.cleanup (61-93)
gloves_cleanup(r) ==
    IF r.gloves_cleanup_done THEN Did(r, "cleanup", "gloves")
    ELSE [destroy(Did(r, "cleanup", "gloves"), "gloves") EXCEPT !.gloves_cleanup_done = TRUE]

\* haptics_pattern_player.cleanup (52-80): no guard
pattern_player_cleanup(r) == destroy(Did(r, "cleanup", "pattern_player"), "pattern_player")

\* array_example.cleanup (216-253)
array_example_cleanup(r) ==
    IF r.array_cleanup_done THEN Did(r, "cleanup", "array_example")
    ELSE [destroy(Did(r, "cleanup", "array_example"), "array_example")
            EXCEPT !.array_cleanup_done = TRUE]

\* haptics_motor_control.cleanup: the call is made; its body is not part of
\* the sources at hand
hmc_cleanup(r) == Did(r, "cleanup", "haptics_motor_control")

\* HapticsServer.cleanup_haptics (563-591)
cleanup_haptics(r) ==
    array_example_cleanup(pattern_player_cleanup(gloves_cleanup(hmc_cleanup(r))))

\* (variant: no cleanup_done guard)
stop_unguarded(r) ==
    LET r1 == Did(r, "stop", "enter")
        r2 == [Did(r1, "close", "server_socket") EXCEPT !.server_socket = "closed"]
        r3 == [Did(r2, "close", "discovery_socket") EXCEPT !.discovery_socket = "closed"]
    IN [cleanup_haptics(r3) EXCEPT !.cleanup_done = TRUE]

\* HapticsServer.stop (536-561)
stop(r) ==
    LET r1 == Did(r, "stop", "enter") IN
    IF r.cleanup_done THEN r1
    ELSE LET r2 == [Did(r1, "close", "server_socket") EXCEPT !.server_socket = "closed"]
             r3 == [Did(r2, "close", "discovery_socket") EXCEPT !.discovery_socket = "closed"]
         IN [cleanup_haptics(r3) EXCEPT !.cleanup_done = TRUE]

\* the adapter's connection and the threads that touch it
threads == <<player_ws, connection, thread_should_exit, receiver_thread, module_cleanup>>

\* the legacy bridge, a program of its own (haptics_bridge.py)
legacy == <<connected_clients, bridge, bridge_threads>>

SetResources(r) ==
    /\ cleanup_done' = r.cleanup_done
    /\ server_socket' = r.server_socket
    /\ discovery_socket' = r.discovery_socket
    /\ destroy_calls' = r.destroy_calls
    /\ gloves_cleanup_done' = r.gloves_cleanup_done
    /\ array_cleanup_done' = r.array_cleanup_done
    /\ UNCHANGED <<threads, legacy>>

resources == <<cleanup_done, server_socket, discovery_socket, destroy_calls,
               gloves_cleanup_done, array_cleanup_done, threads, legacy>>
registries == <<current_clients, active_command_ids, event_handlers>>
loops == <<commands_pc, discovery_pc, broadcast_pc>>

(* ------------------------------- inputs -------------------------------- *)
Params(map, force, et, steps) ==
    [map |-> map, force |-> force, event_type |-> et, steps |-> steps, args |-> NoArgs]

\* a params mapping that holds the given fields
ParamsWith(args) == [Params(TRUE, FALSE, "", 0) EXCEPT !.args = args]

PlayBodies ==
    {[cmd |-> c, params |-> Params(TRUE, FALSE, "", 0)] :
             c \in {"play_wave_pattern", "play_alternating_pattern"}}
    \cup {[cmd |-> "play_custom_pattern", params |-> Params(TRUE, FALSE, "", n)] :
             n \in 0..MaxCustomSteps}

PingBodies == {[cmd |-> "ping", params |-> Params(m, FALSE, "", 0)] : m \in BOOLEAN}

OtherBodies ==
    {[cmd |-> "shutdown", params |-> Params(TRUE, f, "", 0)] : f \in BOOLEAN}
    \cup {[cmd |-> "frobnicate", params |-> Params(TRUE, FALSE, "", 0)]}
    \cup {[cmd |-> c, params |-> Params(TRUE, FALSE, e, 0)] :
             c \in {"register_event_callback", "unregister_event_callback"},
             e \in {"", "pattern_complete"}}

\* <<client_id field, source address>> of a datagram
Sources == {ca \in {NoClient, "c1"} \X Addrs : ca[1] = NoClient => ca[2] \in AnonymousAddrs}

Datagram(b, k, c, a) ==
    [utf8 |-> TRUE, json |-> TRUE, cmd |-> b.cmd, params |-> b.params, cid |-> k, client |-> c, addr |-> a]

\* A datagram that is not JSON comes as UTF-8 text and as other bytes.
\* Pings come from every source, with and without a command_id; the other
\* commands from client c1 at a1; playback commands carry the command_id k1.
Datagrams ==
    {Datagram(b, k, ca[1], ca[2]) : b \in PingBodies, k \in {NoId} \cup GivenIds, ca \in Sources}
    \cup {Datagram(b, k, "c1", "a1") : b \in OtherBodies, k \in {NoId} \cup GivenIds}
    \cup {Datagram(b, "k1", "c1", "a1") : b \in PlayBodies}
    \cup {[utf8 |-> u, json |-> FALSE, cmd |-> "-", params |-> Params(FALSE, FALSE, "", 0),
           cid |-> NoId, client |-> NoClient, addr |-> a] : u \in BOOLEAN, a \in AnonymousAddrs}

\* the destinations sendto fails for in one step: none or all
Failures == {{}, Addrs}

Task(t, i) == [t |-> t, i |-> i]

\* receiver_thread = None (haptics_pattern_player.py:36)
NoThread == [pc |-> "none", ws |-> "none"]

\* no module cleanup is running
NoCleanup == [todo |-> <<>>, pc |-> "idle", ws |-> "none"]

\* haptics_bridge.py:68-70 and the entry of main(): running = True, sock = None,
\* connected_clients = set(); no thread started, cleanup() not yet invoked, no
\* signal handler in progress
BridgeInit ==
    /\ connected_clients = {}
    /\ bridge = [running |-> TRUE, sock |-> "none", pc |-> "startup", cleanups |-> 0,
                 handlers |-> 0, signals |-> 0]
    /\ bridge_threads = <<>>

Init ==
    /\ running = TRUE
    /\ cleanup_done = FALSE
    /\ current_clients = [c \in ClientIds |-> NoAddr]
    /\ active_command_ids = {}
    /\ event_handlers = [e \in EventTypes |-> {}]
    /\ server_socket = "open"
    /\ discovery_socket = "open"
    /\ destroy_calls = 0
    /\ gloves_cleanup_done = FALSE
    /\ array_cleanup_done = FALSE
    /\ ready = <<>>
    /\ tasks = <<>>
    /\ main_pc = "loop"
    /\ commands_pc = "recv"
    /\ discovery_pc = "recv"
    /\ broadcast_pc = "sleep"
    /\ exited = FALSE
    /\ counts = [inputs |-> 0, proc |-> 0]
    /\ effects = <<>>
    /\ player_ws = "none"
    /\ connection = "absent"
    /\ thread_should_exit = FALSE
    /\ receiver_thread = NoThread
    /\ module_cleanup = NoCleanup
    /\ BridgeInit

\* a coroutine is inside a call that does not return to the event loop
Blocked == \E i \in 1..Len(tasks) : tasks[i].pc = "polling"

\* the event loop is alive (not exited, not yet torn down by asyncio.run) and
\* free to run the next callback
LoopAlive == ~exited /\ main_pc \in {"loop", "returned"} /\ ~Blocked

(* ------------------------------- actions ------------------------------- *)
\* handle_commands (270-290): a datagram is received, process_command is made
\* a task, and the loop condition is read
Receive ==
    /\ LoopAlive /\ commands_pc = "recv" /\ server_socket = "open"
    /\ counts.inputs < MaxInputs
    /\ ready' = Append(ready, Task("cmd", 0))
    /\ commands_pc' = IF running THEN "recv" ELSE "done"
    /\ counts' = [counts EXCEPT !.inputs = @ + 1]
    /\ effects' = <<>>
    /\ UNCHANGED <<running, resources, registries, tasks, main_pc, discovery_pc,
                   broadcast_pc, exited>>

\* the process_command task at the head of the queue runs, on a datagram of D
\* and with an adapter that behaves as one of A
ProcessCommandIn(D, A) ==
    /\ LoopAlive /\ ready # <<>> /\ Head(ready).t = "cmd"
    /\ \E d \in D, bad \in Failures, a \in A :
         LET s == process_command(World, [Net(bad) EXCEPT !.adapter = a], d,
                                  UuidOf[counts.proc + 1])
             n == Len(tasks)
         IN /\ current_clients' = s.clients
            /\ active_command_ids' = s.active
            /\ event_handlers' = s.eh
            /\ running' = s.running
            /\ effects' = s.eff
            /\ tasks' = tasks \o [i \in 1..Len(s.spawn) |-> NewTask(s.spawn[i])]
            /\ ready' = Tail(ready)
                          \o [i \in 1..Len(s.spawn) |-> Task("play", n + i)]
                          \o (IF s.exitq THEN <<Task("exit", 0)>> ELSE <<>>)
    /\ counts' = [counts EXCEPT !.proc = @ + 1]
    /\ UNCHANGED <<resources, main_pc, loops, exited>>

ProcessCommandOf(D) == ProcessCommandIn(D, {"true"})

ProcessCommand == ProcessCommandOf(Datagrams)

RunPlayback(i, bad, raises) ==
    LET o == playback_step(World, Net(bad), tasks[i], raises)
    IN /\ tasks[i].kind # "tact"
       /\ tasks' = [tasks EXCEPT ![i] = o.task]
       /\ effects' = o.s.eff
       /\ UNCHANGED <<running, resources, registries, main_pc, loops, exited, counts>>

\* a playback task just created runs its first stretch
PlaybackStart ==
    /\ LoopAlive /\ ready # <<>> /\ Head(ready).t = "play"
    /\ \E bad \in Failures, raises \in BOOLEAN :
          RunPlayback(Head(ready).i, bad, raises)
    /\ ready' = Tail(ready)

\* a playback task's asyncio.sleep ends
PlaybackStep ==
    /\ LoopAlive
    /\ \E i \in 1..Len(tasks), bad \in Failures, raises \in BOOLEAN :
          /\ tasks[i].pc = "sleeping"
          /\ RunPlayback(i, bad, raises)
    /\ UNCHANGED ready

\* a _play_pattern_async task just created runs: load_and_play_tact_file is
\* entered
TactStart ==
    /\ LoopAlive /\ ready # <<>> /\ Head(ready).t = "play"
    /\ tasks[Head(ready).i].kind = "tact"
    /\ \E bad \in Failures, begin \in {"monitor", "return", "raise"} :
          LET o == tact_start(World, Net(bad), tasks[Head(ready).i], begin)
          IN tasks' = [tasks EXCEPT ![Head(ready).i] = o.task] /\ effects' = o.s.eff
    /\ ready' = Tail(ready)
    /\ UNCHANGED <<running, resources, registries, main_pc, loops, exited, counts>>

\* the time.sleep(1) of the monitoring loop ends and the loop goes round
TactPoll ==
    /\ ~exited
    /\ \E i \in 1..Len(tasks), bad \in Failures, is_playing \in BOOLEAN :
          /\ tasks[i].pc = "polling"
          /\ LET o == tact_poll(World, Net(bad), tasks[i], is_playing)
             IN tasks' = [tasks EXCEPT ![i] = o.task] /\ effects' = o.s.eff
    /\ UNCHANGED <<running, resources, registries, ready, main_pc, loops, exited, counts>>

\* signal_handler (1486-1509)
Signal ==
    /\ ~exited /\ main_pc # "finished"
    /\ counts.inputs < MaxInputs
    /\ counts' = [counts EXCEPT !.inputs = @ + 1]
    /\ IF ~cleanup_done
       THEN /\ running' = FALSE
            /\ ready' = IF main_pc = "closed" THEN ready ELSE Append(ready, Task("stop", 0))
            /\ effects' = <<Eff("set_running", "-", "-", "-", "-", TRUE)>>
            /\ UNCHANGED exited
       ELSE /\ exited' = TRUE
            /\ effects' = <<Eff("exit", "signal", "-", "-", "-", TRUE)>>
            /\ UNCHANGED <<running, ready>>
    /\ UNCHANGED <<resources, registries, tasks, main_pc, loops>>

\* the stop() task the signal handler created runs
RunStopTask ==
    /\ LoopAlive /\ ready # <<>> /\ Head(ready).t = "stop"
    /\ LET r == stop(Resources) IN SetResources(r) /\ effects' = r.eff
    /\ ready' = Tail(ready)
    /\ UNCHANGED <<running, registries, tasks, main_pc, loops, exited, counts>>

\* the callback of a forced shutdown runs: os._exit(0)
RunExit ==
    /\ LoopAlive /\ ready # <<>> /\ Head(ready).t = "exit"
    /\ exited' = TRUE
    /\ ready' = Tail(ready)
    /\ effects' = <<Eff("exit", "forced", "-", "-", "-", TRUE)>>
    /\ UNCHANGED <<running, resources, registries, tasks, main_pc, loops, counts>>

\* main (1512-1529): the sleep of the wait loop ends with running false;
\* stop() is awaited and main returns
MainExit ==
    /\ ~exited /\ main_pc = "loop" /\ ~running /\ ~Blocked
    /\ LET r == stop(Resources) IN SetResources(r) /\ effects' = r.eff
    /\ main_pc' = "returned"
    /\ UNCHANGED <<running, registries, ready, tasks, loops, exited, counts>>

\* (variant: the service loops swallow the cancellation and go on)
Teardown_loops_survive ==
    /\ ~exited /\ main_pc = "returned" /\ ~Blocked
    /\ main_pc' = "closed"
    /\ ready' = <<>>
    /\ tasks' = [i \in 1..Len(tasks) |->
                    IF tasks[i].pc = "done" THEN tasks[i]
                    ELSE [tasks[i] EXCEPT !.pc = "cancelled", !.step = 0, !.total = 0,
                                          !.outcome = "cancelled"]]
    /\ effects' = <<>>
    /\ UNCHANGED <<running, resources, registries, loops, exited, counts>>

\* asyncio.run (1549) after main returned: every remaining task is cancelled.
\* The three service loops catch CancelledError and break; a playback task does
\* not catch it; a task that never started never runs.
Teardown ==
    /\ ~exited /\ main_pc = "returned" /\ ~Blocked
    /\ main_pc' = "closed"
    /\ ready' = <<>>
    /\ tasks' = [i \in 1..Len(tasks) |->
                    IF tasks[i].pc = "done" THEN tasks[i]
                    ELSE [tasks[i] EXCEPT !.pc = "cancelled", !.step = 0, !.total = 0,
                                          !.outcome = "cancelled"]]
    /\ commands_pc' = "done" /\ discovery_pc' = "done" /\ broadcast_pc' = "done"
    /\ effects' = <<>>
    /\ UNCHANGED <<running, resources, registries, exited, counts>>

\* the finally block of the script (1557-1571)
Finally ==
    /\ ~exited /\ main_pc = "closed"
    /\ main_pc' = "finished"
    /\ IF ~cleanup_done
       THEN LET r == cleanup_haptics(Resources)
            IN SetResources([r EXCEPT !.cleanup_done = TRUE]) /\ effects' = r.eff
       ELSE effects' = <<>> /\ UNCHANGED resources
    /\ UNCHANGED <<running, registries, ready, tasks, loops, exited, counts>>

\* handle_discovery (230-268): one datagram on the discovery socket.  The
\* payload is decoded and stripped, and answered when it equals the phrase.
\* A failing sendto is caught; the loop then sleeps a second before it reads
\* the run flag.
\* bytes that are not UTF-8: data.decode('utf-8') raises UnicodeDecodeError
NotUtf8 == "<ff fe>"
DiscoveryPayloads == {"UNITY_HAPTICS_DISCOVERY_REQUEST", " UNITY_HAPTICS_DISCOVERY_REQUEST\n",
                      "hello", NotUtf8}
\* str.strip()
strip(payload) == IF payload = " UNITY_HAPTICS_DISCOVERY_REQUEST\n"
                  THEN "UNITY_HAPTICS_DISCOVERY_REQUEST" ELSE payload
DISCOVERY_PHRASE == "UNITY_HAPTICS_DISCOVERY_REQUEST"
DISCOVERY_RESPONSE == "UNITY_HAPTICS_SERVER"
DEFAULT_SERVER_PORT == 9128
\* self.port and self.server_id of the HapticsServer that main() constructs
port == DEFAULT_SERVER_PORT
server_id == "server-uuid"
\* the response of handle_discovery (the timestamp left out)
DiscoveryResponse ==
    [type |-> DISCOVERY_RESPONSE, server_id |-> server_id, api_port |-> port,
     api_version |-> "1.0.0"]

\* (variant: the payload is compared as received)
handle_discovery_unstripped(payload, addr, fails) ==
    IF payload = NotUtf8
    THEN <<Eff("recv", "discovery", payload, addr, "-", TRUE),
           Eff("raise", "UnicodeDecodeError", "-", "-", "-", FALSE)>>
    ELSE IF payload = DISCOVERY_PHRASE
    THEN <<Eff("recv", "discovery", payload, addr, "-", TRUE),
           Eff("sendto", "discovery", "-", addr, DiscoveryResponse, ~fails)>>
    ELSE <<Eff("recv", "discovery", payload, addr, "-", TRUE)>>

handle_discovery(payload, addr, fails) ==
    IF payload = NotUtf8
    THEN <<Eff("recv", "discovery", payload, addr, "-", TRUE),
           Eff("raise", "UnicodeDecodeError", "-", "-", "-", FALSE)>>
    ELSE IF strip(payload) = DISCOVERY_PHRASE
    THEN <<Eff("recv", "discovery", payload, addr, "-", TRUE),
           Eff("sendto", "discovery", "-", addr, DiscoveryResponse, ~fails)>>
    ELSE <<Eff("recv", "discovery", payload, addr, "-", TRUE)>>

Discovery ==
    /\ LoopAlive /\ discovery_pc = "recv" /\ discovery_socket = "open"
    /\ counts.inputs < MaxInputs
    /\ counts' = [counts EXCEPT !.inputs = @ + 1]
    /\ \E payload \in DiscoveryPayloads, addr \in Addrs, fails \in BOOLEAN :
          /\ effects' = handle_discovery(payload, addr, fails)
          /\ discovery_pc' = IF \E k \in 1..Len(effects') : ~effects'[k].ok THEN "sleep"
                             ELSE IF running THEN "recv" ELSE "done"
    /\ UNCHANGED <<running, resources, registries, ready, tasks, main_pc, commands_pc,
                   broadcast_pc, exited>>

\* the asyncio.sleep(1) after an error in handle_discovery ends
DiscoveryWake ==
    /\ LoopAlive /\ discovery_pc = "sleep"
    /\ discovery_pc' = IF running THEN "recv" ELSE "done"
    /\ effects' = <<>>
    /\ UNCHANGED <<running, resources, registries, ready, tasks, main_pc, commands_pc,
                   broadcast_pc, exited, counts>>

\* broadcast_status_updates (455-496): one cycle, from the end of a sleep to the
\* next sleep.  bad: the destinations sendto fails for.
RECURSIVE BroadcastTo(_, _, _)
BroadcastTo(s, net, cs) ==
    IF cs = <<>> THEN s
    ELSE LET c == Head(cs)
             addr == current_clients[c]
             s1 == IF SendOk(net, addr)
                   THEN [s EXCEPT !.eff = Append(@, Eff("sendto", "status_update", "-", addr,
                                                        c, TRUE))]
                   ELSE [s EXCEPT !.eff = Append(@, Eff("sendto", "status_update", "-", addr,
                                                        c, FALSE)),
                                  !.clients[c] = NoAddr]
         IN BroadcastTo(s1, net, Tail(cs))

\* (variant: the first failing sendto ends the cycle)
RECURSIVE BroadcastUntilFailure(_, _, _)
BroadcastUntilFailure(s, net, cs) ==
    IF cs = <<>> THEN s
    ELSE LET c == Head(cs)
             addr == current_clients[c]
         IN IF SendOk(net, addr)
            THEN BroadcastUntilFailure(
                     [s EXCEPT !.eff = Append(@, Eff("sendto", "status_update", "-", addr,
                                                     c, TRUE))], net, Tail(cs))
            ELSE [s EXCEPT !.eff = Append(@, Eff("sendto", "status_update", "-", addr,
                                                 c, FALSE)),
                           !.clients[c] = NoAddr]

broadcast_status_updates_aborting(s, net) ==
    BroadcastUntilFailure(s, net, SetToSeq({c \in ClientIds : s.clients[c] # NoAddr}))

\* (variant: a pruned client also loses its subscriptions)
broadcast_status_updates_unsubscribing(s, net) ==
    LET s1 == BroadcastTo(s, net, SetToSeq({c \in ClientIds : s.clients[c] # NoAddr}))
    IN [s1 EXCEPT !.eh = [e \in EventTypes |->
                            {c \in s.eh[e] : s.clients[c] = NoAddr \/ s1.clients[c] # NoAddr}]]

broadcast_status_updates(s, net) ==
    BroadcastTo(s, net, SetToSeq({c \in ClientIds : s.clients[c] # NoAddr}))

Broadcast ==
    /\ LoopAlive /\ broadcast_pc = "sleep"
    /\ IF ~running
       THEN /\ broadcast_pc' = "done"
            /\ effects' = <<>>
            /\ UNCHANGED <<current_clients, event_handlers, counts>>
       ELSE /\ counts.inputs < MaxInputs
            /\ counts' = [counts EXCEPT !.inputs = @ + 1]
            /\ \E bad \in SUBSET Addrs :
                 LET s == broadcast_status_updates(World, Net(bad))
                 IN /\ current_clients' = s.clients
                    /\ event_handlers' = s.eh
                    /\ effects' = s.eff
            /\ UNCHANGED broadcast_pc
    /\ UNCHANGED <<running, resources, active_command_ids, ready, tasks,
                   main_pc, commands_pc, discovery_pc, exited>>

Next ==
    \/ Receive
    \/ ProcessCommand
    \/ PlaybackStart
    \/ PlaybackStep
    \/ Signal
    \/ RunStopTask
    \/ RunExit
    \/ MainExit
    \/ Teardown
    \/ Finally
    \/ Discovery
    \/ DiscoveryWake
    \/ Broadcast

Spec == Init /\ [][Next]_vars

\* The event loop serves its timers and asyncio.run finishes what it began:
\* main's asyncio.sleep(1) ends, and after main returns the remaining tasks are
\* cancelled.  No datagram and no signal is ever bound to arrive.
\* The datagrams of the runs in which termination is examined: a shutdown of
\* either kind, a ping, a wave pattern, and a datagram that is not JSON.
LiveDatagrams ==
    {d \in Datagrams :
        /\ d.cmd \in {"shutdown", "ping", "play_wave_pattern", "-"}
        /\ d.utf8 /\ d.cid \in GivenIds \cup (IF d.json THEN {} ELSE {NoId})
        /\ d.client \in {"c1", NoClient} /\ d.addr = "a1"}

LiveProcessCommand == ProcessCommandOf(LiveDatagrams)

LiveNext ==
    \/ Receive
    \/ LiveProcessCommand
    \/ PlaybackStart
    \/ PlaybackStep
    \/ Signal
    \/ RunStopTask
    \/ RunExit
    \/ MainExit
    \/ Teardown
    \/ Finally
    \/ Discovery
    \/ DiscoveryWake
    \/ Broadcast

LiveSpec == Init /\ [][LiveNext]_vars /\ WF_vars(MainExit \/ Teardown)


\* The server with tact-file playback: play_pattern commands, a ping and a
\* graceful shutdown, from client c1.
TactDatagrams ==
    {Datagram([cmd |-> "play_pattern",
               params |-> ParamsWith([NoArgs EXCEPT !.pattern_file = f])], "k1", "c1", "a1") :
        f \in {JMissing, JStr("wave.tact")}}
    \cup {d \in Datagrams : d.cmd \in {"ping", "shutdown"} /\ ~d.params.force
                               /\ d.cid = "k1" /\ d.client = "c1" /\ d.addr = "a1"}

TactProcessCommand == ProcessCommandOf(TactDatagrams)

TactNext ==
    \/ Receive
    \/ TactProcessCommand
    \/ TactStart
    \/ TactPoll
    \/ Signal
    \/ RunStopTask
    \/ MainExit
    \/ Teardown
    \/ Finally

TactSpec == Init /\ [][TactNext]_vars

\* The activation commands, from client c1 with command_id k1.  A field takes
\* values on both sides of each check of its handler, and values of each JSON
\* type; a command differs from a valid one in at most one field.
PanelValues == {JMissing, JStr("front"), JStr("Front")}
GloveValues == {JMissing, JStr("left"), JStr("LEFT")}
MotorIndexValues == {JMissing, JInt(0), JInt(5), JInt(6), JInt(19), JInt(20), JInt(-1),
                     JBool(TRUE), JFloat(30), JStr("3")}
IntensityValues == {JMissing, JInt(100), JInt(101), JBool(TRUE)}
DurationValues == {JMissing, JInt(500), JInt(0), JBool(TRUE)}
CoordinateValues == {JMissing, JFloat(5), JFloat(11), JInt(1), JBool(TRUE)}

ArgValues ==
    [panel |-> PanelValues, glove |-> GloveValues, motor_index |-> MotorIndexValues,
     intensity |-> IntensityValues, duration_ms |-> DurationValues,
     x |-> CoordinateValues, y |-> CoordinateValues]

\* the params that differ from base in at most one of the fields
Vary(base, fields) == UNION {{[base EXCEPT ![f] = v] : v \in ArgValues[f]} : f \in fields}

ActivationBodies ==
    {[cmd |-> "activate_discrete", params |-> ParamsWith(a)] :
        a \in Vary([NoArgs EXCEPT !.panel = JStr("front"), !.motor_index = JInt(5),
                                  !.intensity = JInt(100), !.duration_ms = JInt(500)],
                   {"panel", "motor_index", "intensity", "duration_ms"})}
    \cup {[cmd |-> "activate_glove_motor", params |-> ParamsWith(a)] :
        a \in Vary([NoArgs EXCEPT !.glove = JStr("left"), !.motor_index = JInt(5),
                                  !.intensity = JInt(100), !.duration_ms = JInt(500)],
                   {"glove", "motor_index", "intensity", "duration_ms"})}
    \cup {[cmd |-> "activate_funnelling", params |-> ParamsWith(a)] :
        a \in Vary([NoArgs EXCEPT !.panel = JStr("front"), !.x = JFloat(5), !.y = JFloat(5),
                                  !.intensity = JInt(100), !.duration_ms = JInt(500)],
                   {"panel", "x", "y", "intensity", "duration_ms"})}

ActivationDatagrams == {Datagram(b, "k1", "c1", "a1") : b \in ActivationBodies}

ActivationProcessCommand == ProcessCommandIn(ActivationDatagrams, {"true", "false", "raise"})

ActivationNext ==
    \/ Receive
    \/ ActivationProcessCommand

ActivationSpec == Init /\ [][ActivationNext]_vars

(* ------------------------------- claims -------------------------------- *)
\* the positions of the last step's effects that satisfy P
Has(P(_)) == \E k \in 1..Len(effects) : P(effects[k])
\* the last step ran process_command on a decoded request
Dispatched == effects # <<>> /\ effects[1].op = "dispatch"
DispatchedCmd(c) == Dispatched /\ effects[1].x = c

IsTransmittedReply(e) ==
    e.op = "sendto" /\ e.x \in {"response", "error"} /\ e.y # NoId /\ e.ok

C2_EmittedOnce ==
    \A i \in 1..Len(tasks) :
        /\ tasks[i].pc = "done" =>
              Len(tasks[i].emitted) = 1 /\ tasks[i].emitted[1] \in EventTypes
        /\ tasks[i].pc \in {"ready", "sleeping"} => tasks[i].emitted = <<>>

C2_AllSteps ==
    \A i \in 1..Len(tasks) :
        (/\ i <= Len(tasks')
         /\ tasks[i].pc # "done" /\ tasks'[i].pc = "done"
         /\ running
         /\ tasks'[i].emitted = <<"pattern_complete">>)
        => tasks[i].step = tasks[i].total

C2_EachTaskExactlyOneTerminalEvent == [](C2_EmittedOnce) /\ [][C2_AllSteps]_vars

\* C2 witness: a wave task and an alternating task, spawned by two commands in a
\* row, have both played every step and each emitted one pattern_complete
C2_Witness ==
    /\ Len(tasks) = 2
    /\ {tasks[1].kind, tasks[2].kind} = {"wave", "alternating"}
    /\ \A i \in 1..2 : /\ tasks[i].outcome = "completed"
                       /\ tasks[i].emitted = <<"pattern_complete">>

\* C3 (as stated): the terminal event a playback task emits is sent to the
\* client that issued the command, subscribed or not
C3_Original_EventReachesOriginator ==
    \A k \in 1..Len(effects) :
        effects[k].op = "emit" =>
            \E j \in 1..Len(effects) :
                /\ effects[j].op = "sendto" /\ effects[j].x = "event"
                /\ effects[j].to = current_clients[effects[k].to]

\* C4 (as stated): a playback task that finds the run flag false before it has
\* played all its steps ends without emitting pattern_complete
C4_Original_AbortEmitsNoComplete ==
    \A i \in 1..Len(tasks) :
        tasks[i].outcome = "aborted" => tasks[i].emitted # <<"pattern_complete">>

\* C5 (as stated): player.destroy() is invoked at most once in the life of the
\* process
C5_Original_DestroyAtMostOnce == destroy_calls <= 1


\* C6: a stop() that finds cleanup_done set does nothing: it closes no socket,
\* calls no module cleanup and no destroy(), and ends normally -- whether it is
\* the task the signal handler created or the call in main().
C6_Step ==
    (cleanup_done /\ effects' # <<>> /\ effects'[1].op = "stop")
    => (UNCHANGED resources /\ Len(effects') = 1)

C6_SecondStopIsNoOp == [][C6_Step]_vars

\* C6 witness: stop() has just been invoked with the cleanup already done
C6_Witness ==
    /\ cleanup_done /\ destroy_calls > 0
    /\ effects = <<Eff("stop", "enter", "-", "-", "-", TRUE)>>

IsReplyTo(e, command_id) == e.op = "sendto" /\ e.x = "response" /\ e.y = command_id
IsShutdownStart(e) == e.op \in {"set_running", "call_soon"}
IsTeardownWork(e) == e.op \in {"stop", "close", "cleanup", "destroy"}

\* C7 (as amended): in the processing of a shutdown command the success
\* response is handed to sendto before the run flag is changed (or the forced
\* exit scheduled), and the step closes no socket and starts no cleanup; the
\* envelope is transmitted only if that sendto succeeds -- when it raises, the
\* shutdown goes on without a response.
C7_ResponseAttemptPrecedesShutdown ==
    DispatchedCmd("shutdown") =>
        /\ \E i, j \in 1..Len(effects) :
              /\ i < j
              /\ IsReplyTo(effects[i], effects[1].y)
              /\ IsShutdownStart(effects[j])
              /\ \A k \in 1..Len(effects) : IsShutdownStart(effects[k]) => k = j
        /\ \A k \in 1..Len(effects) : ~IsTeardownWork(effects[k])

\* C7 witness: a shutdown command answered, then the run flag cleared
C7_Witness ==
    /\ DispatchedCmd("shutdown") /\ Len(effects) = 3
    /\ IsReplyTo(effects[2], effects[1].y) /\ effects[2].ok
    /\ effects[3].op = "set_running"
    /\ ~running /\ server_socket = "open" /\ ~cleanup_done

\* C7 (as stated): the success response of a shutdown command is transmitted
\* before the run flag is changed
C7_Original_ResponseTransmittedFirst ==
    DispatchedCmd("shutdown") =>
        \E i, j \in 1..Len(effects) :
            /\ i < j
            /\ IsReplyTo(effects[i], effects[1].y) /\ effects[i].ok
            /\ IsShutdownStart(effects[j])

\* C8: processing a shutdown command with force false sets running to false and
\* nothing else: sockets, cleanup flags, destroy() count, subscriptions,
\* playback tasks and the loops are as before, no task is created, the client
\* registry changes only by the registration of the sender and the tracker only
\* in the command's own entry; sockets and cleanup state change only in a step
\* that runs stop() or the exit path's cleanup_haptics().
C8_ShutdownStep ==
    (effects' # <<>> /\ effects'[1].op = "dispatch" /\ effects'[1].x = "shutdown"
        /\ effects'[1].r # "force")
    => /\ running' = FALSE
       /\ UNCHANGED <<resources, event_handlers, tasks, main_pc, loops, exited>>
       /\ ready' = Tail(ready)
       /\ \A c \in ClientIds \ {effects'[1].to} : current_clients'[c] = current_clients[c]
       /\ current_clients[effects'[1].to] # NoAddr
             => current_clients'[effects'[1].to] = current_clients[effects'[1].to]
       /\ current_clients'[effects'[1].to] # NoAddr
       /\ active_command_ids' \ {effects'[1].y} = active_command_ids \ {effects'[1].y}
       /\ \A k \in 1..Len(effects') : ~IsTeardownWork(effects'[k])

C8_TeardownStep ==
    (resources' # resources) => (effects' # <<>> /\ effects'[1].op \in {"stop", "cleanup"})

C8_GracefulShutdownOnlyFlipsFlag == [][C8_ShutdownStep /\ C8_TeardownStep]_vars

\* C8 witness: a graceful shutdown command has been processed; the flag is
\* false, both sockets are open and no cleanup has run
C8_Witness ==
    /\ DispatchedCmd("shutdown") /\ effects[1].r # "force"
    /\ ~running /\ server_socket = "open" /\ discovery_socket = "open"
    /\ ~cleanup_done /\ destroy_calls = 0

\* C9: once running is false it stays false
C9_RunFlagMonotone == [][~running => ~running']_vars

\* C9 witness: a shutdown command has been processed after a SIGINT had
\* already cleared the flag (the signal handler's stop() task is still queued)
C9_Witness ==
    /\ DispatchedCmd("shutdown") /\ effects[1].r # "force" /\ ~running
    /\ \E k \in 1..Len(ready) : ready[k].t = "stop"

Terminated ==
    /\ cleanup_done
    /\ main_pc \in {"closed", "finished"}
    /\ commands_pc = "done" /\ discovery_pc = "done" /\ broadcast_pc = "done"

\* C10 (as amended): once running is false, main's loop ends, stop() completes
\* (cleanup_done) and the dispatcher, discovery and broadcaster loops end, with
\* no further datagram needed -- unless os._exit ends the process first, which
\* happens without cleanup only for a shutdown command with force=true.
C10_LoopsEndAndStopCompletes ==
    ~running ~> (Terminated \/ (exited /\ (cleanup_done \/ effects[1].x = "forced")))

\* C10 witness: the flag is false, stop() has completed and every loop has ended
C10_Witness == ~running /\ Terminated /\ ~exited

\* C10 (as stated): after running becomes false every loop ends (be it with
\* the process) and stop() completes
C10_Original_AlwaysCompletes ==
    ~running ~> (cleanup_done /\ (exited \/ Terminated))


\* C11 (as stated): a tact-file playback task observes the server's run flag:
\* no iteration of its monitoring loop goes on monitoring while running is
\* false
C11_Original_TactTaskObservesRunFlag ==
    \A i \in 1..Len(tasks) :
        (tasks[i].kind = "tact" /\ tasks[i].pc = "polling" /\ ~running)
        => ~(effects # <<>> /\ effects[1].op = "poll")


\* C28 (as stated): while a playback task is between its start and its
\* terminal event the event loop is free to run the dispatcher: the task is
\* suspended in an await, not inside a call that keeps the loop's thread
C28_Original_PlaybackYieldsLoop ==
    \A i \in 1..Len(tasks) :
        (tasks[i].pc \notin {"ready", "done", "cancelled"}) => (tasks[i].pc = "sleeping" /\ ~Blocked)

\* the handler entered in the last step, and the params it was given
Entered(name) == Len(effects) >= 2 /\ effects[2].op = "call" /\ effects[2].x = name
Given == effects[2].y
AdapterCalled == \E k \in 1..Len(effects) : effects[k].op = "adapter"
Answered(result) ==
    \E k \in 1..Len(effects) :
        effects[k].op = "sendto" /\ effects[k].x = "response" /\ effects[k].r = result
\* a JSON integer between lo and hi
IsJsonInteger(v, lo, hi) == v.t = "int" /\ lo <= v.n /\ v.n <= hi
\* a JSON number between 0.0 and 1.0
IsJsonUnitNumber(v) == v.t \in {"int", "float"} /\ InUnitInterval(v)

\* C12 (as stated): activate_discrete with a valid panel and a motor_index that
\* is not an integer in [0,19], and activate_glove_motor with a valid glove and
\* a motor_index that is not an integer in [0,5], are answered with the
\* 'Motor index must be an integer ...' error and make no adapter call
C12_Original_BadMotorIndexRejected ==
    /\ (Entered("handle_activate_discrete") /\ IsOneOf(Given.panel, {"front", "back"})
          /\ ~IsJsonInteger(Given.motor_index, 0, 19))
       => (~AdapterCalled
           /\ Answered(Failure("Motor index must be an integer between 0 and 19")))
    /\ (Entered("handle_activate_glove_motor") /\ IsOneOf(Given.glove, {"left", "right"})
          /\ ~IsJsonInteger(Given.motor_index, 0, 5))
       => (~AdapterCalled
           /\ Answered(Failure("Motor index must be an integer between 0 and 5")))

\* C13 (as stated): activate_funnelling with x or y missing, not a number or
\* outside [0.0, 1.0] is answered success=false and makes no adapter call
C13_Original_BadCoordinateRejected ==
    (Entered("handle_activate_funnelling")
       /\ (~IsJsonUnitNumber(Given.x) \/ ~IsJsonUnitNumber(Given.y)))
    => (~AdapterCalled
        /\ \E k \in 1..Len(effects) :
              effects[k].op = "sendto" /\ effects[k].x = "response" /\ ~effects[k].r.success)

\* C14 (as stated): an adapter activation call is made only for params in
\* contract: panel front or back (glove left or right) exactly, intensity an
\* integer in [0,100], duration_ms a positive integer (judged on the arguments
\* of the call, i.e. after the defaults 100 and 500 of an absent field)
C14_Original_AdapterOnlyInContract ==
    \A k \in 1..Len(effects) :
        (effects[k].op = "adapter" /\ effects[k].x \in {"hmc_activate_discrete",
                                     "hmc_activate_funnelling", "activate_glove_motor"})
        => /\ IF effects[k].x = "activate_glove_motor"
              THEN IsOneOf(effects[k].r.glove, {"left", "right"})
              ELSE IsOneOf(effects[k].r.panel, {"front", "back"})
           /\ IsJsonInteger(effects[k].r.intensity, 0, 100)
           /\ effects[k].r.duration_ms.t = "int" /\ effects[k].r.duration_ms.n > 0

(* ------------------------------ ping echo ------------------------------ *)
\* Pings whose params hold a message of each JSON type or none, and a ping
\* whose params is not a mapping, with and without a command_id, from every
\* source.
MessageValues == {JMissing, JStr("hi"), JStr(""), JInt(7), JNull}
EchoBodies ==
    {[cmd |-> "ping", params |-> ParamsWith([NoArgs EXCEPT !.message = m])] :
        m \in MessageValues}
    \cup {[cmd |-> "ping", params |-> Params(FALSE, FALSE, "", 0)]}
EchoDatagrams ==
    {Datagram(b, k, ca[1], ca[2]) : b \in EchoBodies, k \in {NoId} \cup GivenIds, ca \in Sources}

EchoProcessCommand == ProcessCommandOf(EchoDatagrams)

EchoNext ==
    \/ Receive
    \/ EchoProcessCommand

EchoSpec == Init /\ [][EchoNext]_vars

\* C16: a ping handled with params.message m is answered by one envelope of
\* type 'response' handed to sendto, carrying the command_id of the request and
\* the result success=true, message='Pong', echo=m, where echo is the empty
\* string when message is absent
C16_PingEchoes ==
    (DispatchedCmd("ping") /\ Entered("handle_ping")) =>
        /\ Len(effects) = 3
        /\ effects[3].op = "sendto" /\ effects[3].x = "response"
        /\ effects[3].y = effects[1].y
        /\ effects[3].r = [success |-> TRUE, message |-> "Pong",
                           echo |-> IF Given.message.t = "missing" THEN JStr("")
                                    ELSE Given.message]

\* C16 witness: the ping with command_id k1 and message "hi" was answered
\* with echo "hi", and one without a message with the empty echo
C16_Witness ==
    /\ DispatchedCmd("ping") /\ Entered("handle_ping") /\ effects[1].y = "k1"
    /\ Given.message = JStr("hi")
    /\ Len(effects) = 3 /\ effects[3].y = "k1" /\ effects[3].ok
    /\ effects[3].r.echo = JStr("hi")

(* ------------------------------ discovery ------------------------------ *)
\* the last step ran handle_discovery on a received payload
DiscoveryReceived == effects # <<>> /\ effects[1].op = "recv" /\ effects[1].x = "discovery"
IsDiscoveryReply(e) == e.op = "sendto" /\ e.x = "discovery"

Registries ==
    {f \in [ClientIds -> Addrs \cup {NoAddr}] :
        \A a \in AnonymousAddrs : f[DerivedId(a)] \in {NoAddr, a}}

BroadcastInit ==
    /\ running = TRUE
    /\ cleanup_done = FALSE
    /\ current_clients \in Registries
    /\ active_command_ids = {}
    /\ event_handlers = [e \in EventTypes |-> {}]
    /\ server_socket = "open"
    /\ discovery_socket = "open"
    /\ destroy_calls = 0
    /\ gloves_cleanup_done = FALSE
    /\ array_cleanup_done = FALSE
    /\ ready = <<>>
    /\ tasks = <<>>
    /\ main_pc = "loop"
    /\ commands_pc = "recv"
    /\ discovery_pc = "recv"
    /\ broadcast_pc = "sleep"
    /\ exited = FALSE
    /\ counts = [inputs |-> 0, proc |-> 0]
    /\ effects = <<>>
    /\ player_ws = "none"
    /\ connection = "absent"
    /\ thread_should_exit = FALSE
    /\ receiver_thread = NoThread
    /\ module_cleanup = NoCleanup
    /\ BridgeInit

BroadcastProcessCommand == ProcessCommandOf(EchoDatagrams)

BroadcastNext ==
    \/ Receive
    \/ BroadcastProcessCommand
    \/ Broadcast

BroadcastSpec == BroadcastInit /\ [][BroadcastNext]_vars

IsStatusUpdate(e) == e.op = "sendto" /\ e.x = "status_update"

\* the step is a broadcast cycle in which updates were sent
C19_CycleStep == effects' # <<>> /\ IsStatusUpdate(effects'[1])

\* C19: in a status broadcast cycle every client registered at its start is
\* sent exactly one status update, at its registered address, whether or not
\* the send to another client failed; a client is removed from the registry
\* when and only when the send to it failed, and no client is added
C19_BroadcastPrunesOnlyFailed ==
    [][C19_CycleStep =>
         \A c \in ClientIds :
            IF current_clients[c] = NoAddr
            THEN /\ current_clients'[c] = NoAddr
                 /\ \A k \in 1..Len(effects') : effects'[k].r # c
            ELSE \E k \in 1..Len(effects') :
                    /\ IsStatusUpdate(effects'[k]) /\ effects'[k].r = c
                    /\ effects'[k].to = current_clients[c]
                    /\ \A j \in 1..Len(effects') : effects'[j].r = c => j = k
                    /\ current_clients'[c] = IF effects'[k].ok THEN current_clients[c]
                                             ELSE NoAddr]_vars

\* C19 witness: a cycle in which the send to c1 at a2 failed and c1 was
\* removed, while the client a1 was sent its update and stays registered
C19_Witness ==
    /\ Len(effects) = 2
    /\ Has(LAMBDA e : IsStatusUpdate(e) /\ e.r = "c1" /\ e.to = "a2" /\ ~e.ok)
    /\ Has(LAMBDA e : IsStatusUpdate(e) /\ e.r = "a1" /\ e.to = "a1" /\ e.ok)
    /\ current_clients["c1"] = NoAddr /\ current_clients["a1"] = "a1"

\* C20 (as stated): after a register_event_callback command of a client that
\* was not refused for an empty event_type, the client is in the subscription
\* set of an event type and a success response was handed to sendto
C20_Original_RegisterSubscribes ==
    DispatchedCmd("register_event_callback") =>
        \/ Has(LAMBDA e : e.op = "sendto" /\ e.x = "response" /\ e.r = "failure")
        \/ /\ \E t \in EventTypes : effects[1].to \in event_handlers[t]
           /\ Has(LAMBDA e : e.op = "sendto" /\ e.x = "response" /\ e.r = "success")

(* --------------------------- client registry --------------------------- *)
\* The server after clients have registered, receiving pings of which those
\* bearing the client_id c1 all come from the address a2.
MovedDatagrams == {d \in EchoDatagrams : d.client = "c1" => d.addr = "a2"}

MovedProcessCommand == ProcessCommandOf(MovedDatagrams)

MovedNext ==
    \/ Receive
    \/ MovedProcessCommand

MovedSpec == BroadcastInit /\ [][MovedNext]_vars

\* C24 (as stated): after a command bearing client_id c1 has arrived from a2,
\* the registry maps c1 to a2 and the response to the command goes to a2
C24_Original_LastWriteWins ==
    (Dispatched /\ effects[1].to = "c1") =>
        /\ current_clients["c1"] = "a2"
        /\ \A k \in 1..Len(effects) : effects[k].op = "sendto" => effects[k].to = "a2"

(* ------------------------ faults during shutdown ----------------------- *)
\* The steps of stop() that may raise: the close of either socket and the
\* cleanup of each module.
Modules == {"haptics_motor_control", "gloves", "pattern_player", "array_example"}
FaultSteps == {"server_socket", "discovery_socket"} \cup Modules
Failed(r, op, x) == [r EXCEPT !.eff = Append(@, Eff(op, x, "-", "-", "-", FALSE))]

\* cleanup_haptics (563-591) with the cleanups in faults raising: each call
\* has its own try/except
cleanup_haptics_with(r, faults) ==
    LET r1 == IF "haptics_motor_control" \in faults
              THEN Failed(r, "cleanup", "haptics_motor_control") ELSE hmc_cleanup(r)
        r2 == IF "gloves" \in faults THEN Failed(r1, "cleanup", "gloves")
              ELSE gloves_cleanup(r1)
        r3 == IF "pattern_player" \in faults THEN Failed(r2, "cleanup", "pattern_player")
              ELSE pattern_player_cleanup(r2)
    IN IF "array_example" \in faults THEN Failed(r3, "cleanup", "array_example")
       ELSE array_example_cleanup(r3)

\* stop (536-561) with the steps in faults raising: the two close calls stand
\* outside any try block.  raised: the exception left stop().
stop_with(r, faults) ==
    LET r1 == Did(r, "stop", "enter") IN
    IF r.cleanup_done THEN [r |-> r1, raised |-> FALSE]
    ELSE IF "server_socket" \in faults
    THEN [r |-> Failed(r1, "close", "server_socket"), raised |-> TRUE]
    ELSE LET r2 == [Did(r1, "close", "server_socket") EXCEPT !.server_socket = "closed"]
         IN IF "discovery_socket" \in faults
            THEN [r |-> Failed(r2, "close", "discovery_socket"), raised |-> TRUE]
            ELSE LET r3 == [Did(r2, "close", "discovery_socket")
                               EXCEPT !.discovery_socket = "closed"]
                 IN [r |-> [cleanup_haptics_with(r3, faults) EXCEPT !.cleanup_done = TRUE],
                     raised |-> FALSE]

\* the stop() task of the signal handler runs; an exception stays in the task
FaultyRunStopTask ==
    /\ LoopAlive /\ ready # <<>> /\ Head(ready).t = "stop"
    /\ \E faults \in SUBSET FaultSteps :
          LET o == stop_with(Resources, faults) IN SetResources(o.r) /\ effects' = o.r.eff
    /\ ready' = Tail(ready)
    /\ UNCHANGED <<running, registries, tasks, main_pc, loops, exited, counts>>

\* main awaits stop() and returns, or the exception of stop() leaves main; in
\* both cases asyncio.run goes on to cancel the remaining tasks
FaultyMainExit ==
    /\ ~exited /\ main_pc = "loop" /\ ~running /\ ~Blocked
    /\ \E faults \in SUBSET FaultSteps :
          LET o == stop_with(Resources, faults) IN SetResources(o.r) /\ effects' = o.r.eff
    /\ main_pc' = "returned"
    /\ UNCHANGED <<running, registries, ready, tasks, loops, exited, counts>>

\* the finally block of the script (1557-1571) with cleanups raising
FaultyFinally ==
    /\ ~exited /\ main_pc = "closed"
    /\ main_pc' = "finished"
    /\ IF ~cleanup_done
       THEN \E faults \in SUBSET Modules :
              LET r == cleanup_haptics_with(Resources, faults)
              IN SetResources([r EXCEPT !.cleanup_done = TRUE]) /\ effects' = r.eff
       ELSE effects' = <<>> /\ UNCHANGED resources
    /\ UNCHANGED <<running, registries, ready, tasks, loops, exited, counts>>

FaultNext ==
    \/ Signal
    \/ FaultyRunStopTask
    \/ FaultyMainExit
    \/ Teardown
    \/ FaultyFinally

FaultSpec == Init /\ [][FaultNext]_vars

\* the last step ran stop() past its cleanup_done guard
StopRan == Len(effects) > 1 /\ effects[1].op = "stop"

\* C25 (as stated): whichever step of stop() raises, the discovery socket is
\* still closed, every module cleanup is still invoked, and the sequence ends
\* with cleanup_done set
C25_Original_StopStepsIndependent ==
    StopRan =>
        /\ Has(LAMBDA e : e.op = "close" /\ e.x = "discovery_socket")
        /\ \A m \in Modules : Has(LAMBDA e : e.op = "cleanup" /\ e.x = m)
        /\ cleanup_done

\* C30 (as stated): a failed send of a response or an error to the client of a
\* command removes that client from the client registry
C30_Original_SendFailurePrunes ==
    (Dispatched /\ Has(LAMBDA e : e.op = "sendto" /\ e.x \in {"response", "error"} /\ ~e.ok))
        => current_clients[effects[1].to] = NoAddr

(* --------------------- commands around the release --------------------- *)
\* A valid activate_discrete, a wave pattern and a graceful shutdown from
\* client c1, with a signal arriving at any moment.
ReleaseDatagrams ==
    {Datagram([cmd |-> "activate_discrete",
               params |-> ParamsWith([NoArgs EXCEPT !.panel = JStr("front"),
                                                    !.motor_index = JInt(5)])],
              "k1", "c1", "a1")}
    \cup {d \in Datagrams : d.cmd \in {"play_wave_pattern", "shutdown"} /\ ~d.params.force
                               /\ d.cid = "k1" /\ d.client = "c1" /\ d.addr = "a1"}

ReleaseProcessCommand == ProcessCommandOf(ReleaseDatagrams)

ReleaseNext ==
    \/ Receive
    \/ ReleaseProcessCommand
    \/ PlaybackStart
    \/ PlaybackStep
    \/ Signal
    \/ RunStopTask
    \/ MainExit
    \/ Teardown
    \/ Finally

ReleaseSpec == Init /\ [][ReleaseNext]_vars

\* C27 (as stated): once stop() has run cleanup_haptics (cleanup_done is set)
\* no step of a command handler or of a playback task calls the adapter
C27_Original_NoAdapterCallAfterRelease ==
    cleanup_done => ~Has(LAMBDA e : e.op = "adapter")

(* ----------------------- stopping a pattern ---------------------------- *)
\* Wave and custom patterns and stop_pattern commands, with and without a
\* key, from client c1; the adapter's stop call returns or raises.
StopDatagrams ==
    {Datagram([cmd |-> "stop_pattern",
               params |-> ParamsWith([NoArgs EXCEPT !.key = k])], "k1", "c1", "a1") :
        k \in {JMissing, JStr("wave")}}
    \cup {d \in Datagrams : d.cmd \in {"play_wave_pattern", "play_custom_pattern"}
                               /\ d.cid = "k1" /\ d.client = "c1" /\ d.addr = "a1"}

StopProcessCommand == ProcessCommandIn(StopDatagrams, {"true", "raise"})

StopNext ==
    \/ Receive
    \/ StopProcessCommand
    \/ PlaybackStart
    \/ PlaybackStep

StopSpec == Init /\ [][StopNext]_vars

IsStop(e) == e.op = "adapter" /\ e.x \in {"stop_all", "stop_key"} /\ e.ok

\* C29 (as stated): when a stop_pattern command has been processed while a
\* wave, alternating or custom playback task is in flight, no later step of
\* that task submits a motor frame (here: the step that follows at once)
C29_Original_StoppedPlaybackSubmitsNothing ==
    [][(Has(IsStop) /\ \E i \in 1..Len(tasks) : tasks[i].pc = "sleeping")
         => ~\E k \in 1..Len(effects') :
                 effects'[k].op = "adapter" /\ effects'[k].x = "activate_motor_array"]_vars

\* an exception left a handler and reached process_command's except clause
IsEscape(e) == e.op = "raise" /\ e.y = "handler"

\* C21 (as stated): whatever params a recognized command carries, no exception
\* escapes its handler into process_command
C21_Original_NoExceptionEscapes == ~Has(IsEscape)

IsAdapterRaise(e) == e.op = "adapter" /\ ~e.ok

\* C22 (as stated): when an adapter call raises inside a handler the exception
\* does not leave the handler, and the command is answered with a
\* success=false result
C22_Original_AdapterErrorContained ==
    (Dispatched /\ Has(IsAdapterRaise)) =>
        /\ ~Has(IsEscape)
        /\ Has(LAMBDA e : e.op = "sendto" /\ e.x = "response" /\ ~e.r.success)

\* C23 (as stated): a command whose processing failed with an exception is
\* answered by an error envelope handed to sendto, with or without a
\* command_id in the request
C23_Original_ExceptionAlwaysAnswered ==
    (Dispatched /\ Has(IsEscape)) => Has(LAMBDA e : e.op = "sendto" /\ e.x = "error")

\* the last step ran process_command on a datagram whose decoding raised
DecodeFailed ==
    /\ effects # <<>> /\ effects[1].op = "raise" /\ effects[1].y = "process_command"
    /\ effects[1].x \in {"JSONDecodeError", "UnicodeDecodeError"}

\* C18 (as stated): a datagram that fails decoding makes process_command hand
\* one error envelope without command_id to sendto, addressed to the datagram's
\* source address
C18_Original_DecodeFailureAnswered ==
    DecodeFailed =>
        /\ Len(effects) = 2
        /\ effects[2].op = "sendto" /\ effects[2].x = "error"
        /\ effects[2].y = NoId /\ effects[2].to = effects[1].to

\* the last step ran process_command on a command without a handler
UnknownDispatched == Dispatched /\ effects[1].x \notin command_handlers

(* ------------------------ event subscriptions --------------------------- *)
\* event_handlers as the handlers read it: event type -> set of client ids
\* (812-815, 1291-1302)
Subscriptions == [EventTypes -> SUBSET ClientIds]

\* the server with some registry of clients and some table of subscriptions
SubscriptionInit ==
    /\ running = TRUE
    /\ cleanup_done = FALSE
    /\ current_clients \in Registries
    /\ active_command_ids = {}
    /\ event_handlers \in Subscriptions
    /\ server_socket = "open"
    /\ discovery_socket = "open"
    /\ destroy_calls = 0
    /\ gloves_cleanup_done = FALSE
    /\ array_cleanup_done = FALSE
    /\ ready = <<>>
    /\ tasks = <<>>
    /\ main_pc = "loop"
    /\ commands_pc = "recv"
    /\ discovery_pc = "recv"
    /\ broadcast_pc = "sleep"
    /\ exited = FALSE
    /\ counts = [inputs |-> 0, proc |-> 0]
    /\ effects = <<>>
    /\ player_ws = "none"
    /\ connection = "absent"
    /\ thread_should_exit = FALSE
    /\ receiver_thread = NoThread
    /\ module_cleanup = NoCleanup
    /\ BridgeInit

\* unregister_event_callback with no event_type (""), with each event type,
\* with an event type nobody can be subscribed to, and with params that is no
\* mapping; a ping
SubscriptionBodies ==
    {[cmd |-> "unregister_event_callback", params |-> Params(TRUE, FALSE, e, 0)] :
        e \in {"", "device_lost"} \cup EventTypes}
    \cup {[cmd |-> c, params |-> Params(FALSE, FALSE, "", 0)] :
            c \in {"unregister_event_callback"}}
    \cup {[cmd |-> "ping", params |-> Params(TRUE, FALSE, "", 0)]}

SubscriptionDatagrams ==
    {Datagram(b, "k1", ca[1], ca[2]) : b \in SubscriptionBodies, ca \in Sources}

SubscriptionProcessCommand == ProcessCommandOf(SubscriptionDatagrams)

SubscriptionNext ==
    \/ Receive
    \/ SubscriptionProcessCommand
    \/ Broadcast

SubscriptionSpec == SubscriptionInit /\ [][SubscriptionNext]_vars

\* the step removed client c from the registry
Pruned(c) == current_clients[c] # NoAddr /\ current_clients'[c] = NoAddr

\* the step ran process_command on an unregister_event_callback of client c
UnregisterStep(c) ==
    /\ effects' # <<>> /\ effects'[1].op = "dispatch"
    /\ effects'[1].x = "unregister_event_callback" /\ effects'[1].to = c

\* C31: a step that removes a client from the registry leaves the whole
\* subscription table as it was, and a client leaves the subscriber set of an
\* event type only in a step that processes an unregister_event_callback
\* command bearing that client's id
C31_PruneKeepsSubscriptions ==
    [][/\ (\E c \in ClientIds : Pruned(c)) => event_handlers' = event_handlers
       /\ \A e \in EventTypes : \A c \in event_handlers[e] :
             c \notin event_handlers'[e] => UnregisterStep(c)]_vars

\* C31 witness: a broadcast cycle has just removed c1, whose send failed, from
\* the registry, and c1 is still subscribed to both event types
C31_Witness ==
    /\ \E k \in 1..Len(effects) :
          IsStatusUpdate(effects[k]) /\ effects[k].r = "c1" /\ ~effects[k].ok
    /\ current_clients["c1"] = NoAddr
    /\ \A e \in EventTypes : "c1" \in event_handlers[e]

\* C32 (as stated): when a process_command task has finished, the command_id
\* it inserted -- the request's own or the generated one -- is no longer in
\* active_command_ids, whether the handler returned or raised and whether or
\* not the reply could be sent
C32_Original_FinishedTaskLeavesNoEntry ==
    Dispatched => effects[1].y \notin active_command_ids

\* a response or error envelope handed to sendto
IsEnvelope(e) == e.op = "sendto" /\ e.x \in {"response", "error"}

Envelopes == {k \in 1..Len(effects) : IsEnvelope(effects[k])}

\* C33: a step sends at most one response or error envelope; an envelope with a
\* command_id is sent only by the process_command step of that command_id; and
\* a shutdown command whose handler runs through makes exactly one send, a
\* 'response' made by the handler before it initiates the shutdown, with
\* nothing sent after the handler has returned None
C33_AtMostOneEnvelope ==
    /\ Cardinality(Envelopes) <= 1
    /\ \A k \in Envelopes :
          effects[k].y # NoId => Dispatched /\ effects[k].y = effects[1].y
    /\ (DispatchedCmd("shutdown") /\ ~Has(IsEscape)) =>
          \E k \in Envelopes :
             /\ effects[k].x = "response"
             /\ \E j \in 1..Len(effects) : IsShutdownStart(effects[j]) /\ k < j

\* C33 witness: a shutdown command with command_id k1 was processed: one
\* response envelope, transmitted, and the run flag is false
C33_Witness ==
    /\ DispatchedCmd("shutdown") /\ effects[1].y = "k1"
    /\ Cardinality(Envelopes) = 1
    /\ \A k \in Envelopes : effects[k].x = "response" /\ effects[k].ok
    /\ ~running

(* ------------------- playback commands and their tasks ------------------ *)
\* The four playback commands, from client c1 with command_id k1.
PlayDatagrams ==
    {Datagram(b, "k1", "c1", "a1") : b \in PlayBodies}
    \cup {d \in TactDatagrams : d.cmd = "play_pattern"}

PlayProcessCommand == ProcessCommandOf(PlayDatagrams)

PlayNext ==
    \/ Receive
    \/ PlayProcessCommand
    \/ PlaybackStart
    \/ PlaybackStep
    \/ TactStart
    \/ TactPoll

PlaySpec == Init /\ [][PlayNext]_vars

\* something a playback task does: an adapter call, a poll of the player, or
\* the announcement of its terminal event
IsTaskActivity(e) == e.op \in {"adapter", "poll", "emit"}

\* the 'started' acknowledgment of the command just dispatched
IsStartedAck(e) ==
    e.op = "sendto" /\ e.x = "response" /\ e.y = effects'[1].y /\ e.r = "success"

PlaybackInterrupted ==
    /\ LoopAlive /\ running /\ ~cleanup_done
    /\ counts.inputs < MaxInputs
    /\ \E i \in 1..Len(tasks), bad \in Failures, raises \in BOOLEAN :
          LET fresh == ready # <<>> /\ Head(ready) = Task("play", i)
              o == playback_step(World, Net(bad), tasks[i], raises)
          IN /\ tasks[i].kind # "tact" /\ tasks[i].step < tasks[i].total
             /\ fresh \/ tasks[i].pc = "sleeping"
             /\ tasks' = [tasks EXCEPT ![i] = o.task]
             /\ effects' = <<Eff("set_running", "-", "-", "-", "-", TRUE)>> \o o.s.eff
             /\ ready' = Append(IF fresh THEN Tail(ready) ELSE ready, Task("stop", 0))
    /\ running' = FALSE
    /\ counts' = [counts EXCEPT !.inputs = @ + 1]
    /\ UNCHANGED <<resources, registries, main_pc, loops, exited>>

\* The wave, alternating and custom commands and a graceful shutdown, from
\* client c1 with command_id k1.
InterruptDatagrams ==
    {d \in Datagrams : d.cmd \in PlayCommands \cup {"shutdown"} /\ ~d.params.force
                          /\ d.cid = "k1" /\ d.client = "c1" /\ d.addr = "a1"}

InterruptProcessCommand == ProcessCommandOf(InterruptDatagrams)

InterruptNext ==
    \/ Receive
    \/ InterruptProcessCommand
    \/ PlaybackStart
    \/ PlaybackStep
    \/ PlaybackInterrupted
    \/ Signal
    \/ RunStopTask
    \/ MainExit
    \/ Teardown
    \/ Finally

InterruptSpec == Init /\ [][InterruptNext]_vars

IsMotorCall(e) == e.op = "adapter" /\ e.x = "activate_motor_array"

\* C35 (as amended): a stretch of a playback task that starts with the run
\* flag false makes no activate_motor_array call, so after a shutdown command
\* or a SIGINT handled between two stretches no further step is played; the
\* one exception is a SIGINT delivered inside a stretch, between the task's
\* test of the flag and its call, after which that one step is still submitted
C35_NoStepOnceFlagIsFalse ==
    [][~running => \A k \in 1..Len(effects') : ~IsMotorCall(effects'[k])]_vars

\* C35 witness: a wave task that had played one step found the flag false and
\* left its loop without a further call
C35_Witness ==
    /\ ~running
    /\ \E i \in 1..Len(tasks) : tasks[i].kind = "wave" /\ tasks[i].outcome = "aborted"
    /\ Has(LAMBDA e : e.op = "emit")
    /\ ~Has(IsMotorCall)

\* C35 (as stated): once the run flag is false no playback task makes an
\* activate_motor_array call
C35_Original_NoCallWithFlagFalse ==
    ~running => ~Has(IsMotorCall)

\* the handler of the unregister_event_callback just processed was entered
Unregistered == effects' # <<>> /\ Len(effects') >= 2 /\ effects'[1].op = "dispatch"
                /\ effects'[2].op = "call"
                /\ effects'[2].x = "handle_unregister_event_callback"

\* the result mapping handed to send_response in the step says res
UnregisterAnswered(res) ==
    \E k \in 3..Len(effects') :
       effects'[k].op = "sendto" /\ effects'[k].x = "response" /\ effects'[k].r = res

\* C36: unregister_event_callback from client c leaves every other client's
\* subscriptions as they were; with an event_type e that c is subscribed to, c
\* leaves the subscribers of e only and the result is a success; with an
\* event_type c is not subscribed to, nothing changes and the result is
\* success=false; with no event_type (absent or empty) c leaves the subscribers
\* of every event type and the result is a success
C36_UnregisterFrame ==
    [][Unregistered =>
         LET c == effects'[2].to
             et == effects'[2].y
         IN /\ \A e \in EventTypes : \A c2 \in ClientIds \ {c} :
                  c2 \in event_handlers'[e] <=> c2 \in event_handlers[e]
            /\ IF et = ""
               THEN /\ \A e \in EventTypes : event_handlers'[e] = event_handlers[e] \ {c}
                    /\ UnregisterAnswered("success")
               ELSE IF et \in EventTypes /\ c \in event_handlers[et]
               THEN /\ event_handlers' = [event_handlers EXCEPT ![et] = @ \ {c}]
                    /\ UnregisterAnswered("success")
               ELSE /\ event_handlers' = event_handlers
                    /\ UnregisterAnswered("failure")]_vars

\* C36 witness: c1 has just unregistered from pattern_complete: it is still
\* subscribed to pattern_error, and the client a1 still to pattern_complete
C36_Witness ==
    /\ Len(effects) >= 3 /\ effects[2].op = "call"
    /\ effects[2].x = "handle_unregister_event_callback"
    /\ effects[2].y = "pattern_complete" /\ effects[2].to = "c1"
    /\ effects[3].op = "sendto" /\ effects[3].r = "success"
    /\ "c1" \notin event_handlers["pattern_complete"]
    /\ "c1" \in event_handlers["pattern_error"]
    /\ "a1" \in event_handlers["pattern_complete"]

(* ----------------------- a pruned client returns ------------------------ *)
\* Client c1 is registered at a1 and the table of subscriptions is any.  c1
\* sends pings and a wave pattern with command_id k1 from a1, and pings without
\* a command_id from a2; the status broadcast runs.
RejoinInit == SubscriptionInit /\ current_clients["c1"] = "a1"

RejoinDatagrams ==
    {d \in EchoDatagrams : d.client = "c1" /\ d.params.map /\ d.params.args = NoArgs
                              /\ ((d.cid = "k1" /\ d.addr = "a1") \/ (d.cid = NoId /\ d.addr = "a2"))}
    \cup {d \in Datagrams : d.cmd = "play_wave_pattern" /\ d.cid = "k1"}

\* where a command of these runs came from, by the command_id it was given
SourceOf(command_id) == IF command_id = "k1" THEN "a1" ELSE "a2"

RejoinProcessCommand == ProcessCommandOf(RejoinDatagrams)

RejoinNext ==
    \/ Receive
    \/ RejoinProcessCommand
    \/ PlaybackStart
    \/ PlaybackStep
    \/ Broadcast

RejoinSpec == RejoinInit /\ [][RejoinNext]_vars

\* the step ran process_command on a command bearing client id c
CommandOf(c) == effects' # <<>> /\ effects'[1].op = "dispatch" /\ effects'[1].to = c

server == <<running, cleanup_done, server_socket, discovery_socket, registries, ready,
            tasks, main_pc, loops, exited, counts, legacy>>

\* the module cleanups one caller runs, in order: HapticsServer.cleanup_haptics
\* (gloves, pattern player, array example), or the pattern player's own
\* signal_handler, which runs only its own cleanup
CleanupCallers == {<<"gloves", "pattern_player", "array_example">>, <<"pattern_player">>}

\* first statement of a module's cleanup
Entry(m) == IF m = "pattern_player" THEN "flag" ELSE "guard"

\* the cleanup of the module at the head of todo has returned
NextModule(c) ==
    LET rest == Tail(c.todo)
    IN IF rest = <<>> THEN [todo |-> rest, pc |-> "finished", ws |-> "none"]
       ELSE [todo |-> rest, pc |-> Entry(Head(rest)), ws |-> "none"]

\* load_and_play_tact_file, lines 212-221: player.initialize() connects and
\* the receiver thread is started and remembered
StartReceiver ==
    /\ receiver_thread.pc = "none" /\ connection = "absent"
    /\ module_cleanup.pc = "idle"
    /\ player_ws' = "conn"
    /\ connection' = "open"
    /\ receiver_thread' = [pc |-> "loop", ws |-> "none"]
    /\ effects' = <<Eff("initialize", "player", "-", "-", "-", TRUE)>>
    /\ UNCHANGED <<server, destroy_calls, gloves_cleanup_done, array_cleanup_done,
                   thread_should_exit, module_cleanup>>

\* custom_thread_function (83-104), one statement per step
ReceiverStep ==
    /\ receiver_thread.pc \notin {"none", "exited"}
    /\ LET pc == receiver_thread.pc IN
       CASE pc = "loop" ->    \* while not thread_should_exit
              /\ receiver_thread' = [receiver_thread EXCEPT
                                       !.pc = IF thread_should_exit THEN "exited" ELSE "test"]
              /\ effects' = <<>>
         [] pc = "test" ->    \* if player.ws is not None
              /\ receiver_thread' = [receiver_thread EXCEPT
                                       !.pc = IF player_ws # "none" THEN "load" ELSE "sleep"]
              /\ effects' = <<>>
         [] pc = "load" ->    \* player.ws is read again for the call
              /\ receiver_thread' = [pc |-> IF player_ws = "none" THEN "exited" ELSE "call",
                                     ws |-> player_ws]
              /\ effects' = IF player_ws = "none"
                            THEN <<Eff("raise", "AttributeError", "receiver", "-", "-", FALSE)>>
                            ELSE <<>>
         [] pc = "call" ->    \* .recv_frame() on the handle just read
              /\ receiver_thread' = [receiver_thread EXCEPT
                                       !.pc = IF connection = "open" THEN "blocked" ELSE "exited"]
              /\ effects' = <<Eff("recv_frame", "receiver", connection, "-", "-",
                                  connection = "open")>>
         [] pc = "blocked" -> \* recv_frame returns a frame, or raises once closed
              /\ receiver_thread' = [receiver_thread EXCEPT
                                       !.pc = IF connection = "open" THEN "loop" ELSE "exited"]
              /\ effects' = <<>>
         [] pc = "sleep" ->   \* time.sleep(0.1)
              /\ receiver_thread' = [receiver_thread EXCEPT !.pc = "loop"]
              /\ effects' = <<>>
    /\ UNCHANGED <<server, destroy_calls, gloves_cleanup_done, array_cleanup_done,
                   player_ws, connection, thread_should_exit, module_cleanup>>

\* a caller starts its module cleanups
CleanupBegin ==
    /\ module_cleanup.pc = "idle"
    /\ \E todo \in CleanupCallers :
         module_cleanup' = [todo |-> todo, pc |-> Entry(Head(todo)), ws |-> "none"]
    /\ effects' = <<>>
    /\ UNCHANGED <<server, destroy_calls, gloves_cleanup_done, array_cleanup_done,
                   player_ws, connection, thread_should_exit, receiver_thread>>

\* haptics_gloves.cleanup (61-93) and array_example.cleanup (216-253), which
\* read the same, one statement per step
GuardedCleanupStep ==
    /\ module_cleanup.pc \in {"guard", "test", "take", "null", "close", "sleep", "destroy",
                              "mark"}
    /\ LET c == module_cleanup
           m == Head(c.todo)
           done == IF m = "gloves" THEN gloves_cleanup_done ELSE array_cleanup_done
       IN
       CASE c.pc = "guard" ->   \* if cleanup_done: return
              /\ module_cleanup' = IF done THEN NextModule(c) ELSE [c EXCEPT !.pc = "test"]
              /\ effects' = <<Eff("cleanup", m, "-", "-", "-", TRUE)>>
              /\ UNCHANGED <<player_ws, connection, destroy_calls, gloves_cleanup_done,
                             array_cleanup_done>>
         [] c.pc = "test" ->    \* if player.ws is not None
              /\ module_cleanup' = [c EXCEPT !.pc = IF player_ws # "none" THEN "take"
                                                    ELSE "sleep"]
              /\ effects' = <<>>
              /\ UNCHANGED <<player_ws, connection, destroy_calls, gloves_cleanup_done,
                             array_cleanup_done>>
         [] c.pc = "take" ->    \* ws = player.ws
              /\ module_cleanup' = [c EXCEPT !.pc = "null", !.ws = player_ws]
              /\ effects' = <<>>
              /\ UNCHANGED <<player_ws, connection, destroy_calls, gloves_cleanup_done,
                             array_cleanup_done>>
         [] c.pc = "null" ->    \* player.ws = None
              /\ player_ws' = "none"
              /\ module_cleanup' = [c EXCEPT !.pc = "close"]
              /\ effects' = <<>>
              /\ UNCHANGED <<connection, destroy_calls, gloves_cleanup_done,
                             array_cleanup_done>>
         [] c.pc = "close" ->   \* ws.close()
              /\ connection' = IF c.ws = "conn" THEN "closed" ELSE connection
              /\ module_cleanup' = [c EXCEPT !.pc = "sleep"]
              /\ effects' = <<Eff("close", "ws", player_ws, "-", m, TRUE)>>
              /\ UNCHANGED <<player_ws, destroy_calls, gloves_cleanup_done,
                             array_cleanup_done>>
         [] c.pc = "sleep" ->   \* time.sleep(0.5)
              /\ module_cleanup' = [c EXCEPT !.pc = "destroy"]
              /\ effects' = <<>>
              /\ UNCHANGED <<player_ws, connection, destroy_calls, gloves_cleanup_done,
                             array_cleanup_done>>
         [] c.pc = "destroy" -> \* player.destroy()
              /\ connection' = IF player_ws = "conn" THEN "closed" ELSE connection
              /\ destroy_calls' = destroy_calls + 1
              /\ module_cleanup' = [c EXCEPT !.pc = "mark"]
              /\ effects' = <<Eff("destroy", m, player_ws, "-", "-", TRUE)>>
              /\ UNCHANGED <<player_ws, gloves_cleanup_done, array_cleanup_done>>
         [] c.pc = "mark" ->    \* cleanup_done = True
              /\ gloves_cleanup_done' = (gloves_cleanup_done \/ m = "gloves")
              /\ array_cleanup_done' = (array_cleanup_done \/ m = "array_example")
              /\ module_cleanup' = NextModule(c)
              /\ effects' = <<>>
              /\ UNCHANGED <<player_ws, connection, destroy_calls>>
    /\ UNCHANGED <<server, thread_should_exit, receiver_thread>>

\* haptics_pattern_player.cleanup (52-80), one statement per step; the join
\* returns when the receiver has ended or when its 2 s timeout has passed
PatternPlayerCleanupStep ==
    /\ module_cleanup.pc \in {"flag", "join", "pp_destroy"}
    /\ LET c == module_cleanup
           alive == receiver_thread.pc \notin {"none", "exited"}
       IN
       CASE c.pc = "flag" ->       \* thread_should_exit = True
              /\ thread_should_exit' = TRUE
              /\ module_cleanup' = [c EXCEPT !.pc = "join"]
              /\ effects' = <<Eff("cleanup", "pattern_player", "-", "-", "-", TRUE)>>
              /\ UNCHANGED <<connection, destroy_calls>>
         [] c.pc = "join" ->       \* receiver_thread.join(timeout=2.0)
              /\ module_cleanup' = [c EXCEPT !.pc = "pp_destroy"]
              /\ effects' = <<Eff("join", "receiver", "-", "-", "-", ~alive)>>
              /\ UNCHANGED <<connection, destroy_calls, thread_should_exit>>
         [] c.pc = "pp_destroy" -> \* player.destroy()
              /\ connection' = IF player_ws = "conn" THEN "closed" ELSE connection
              /\ destroy_calls' = destroy_calls + 1
              /\ module_cleanup' = NextModule(c)
              /\ effects' = <<Eff("destroy", "pattern_player", player_ws, "-", "-", TRUE)>>
              /\ UNCHANGED thread_should_exit
    /\ UNCHANGED <<server, player_ws, gloves_cleanup_done, array_cleanup_done,
                   receiver_thread>>

CleanupNext ==
    \/ StartReceiver
    \/ ReceiverStep
    \/ CleanupBegin
    \/ GuardedCleanupStep
    \/ PatternPlayerCleanupStep

CleanupSpec == Init /\ [][CleanupNext]_vars

\* a close or destroy that ran while player.ws still referred to the connection
ClosedUnnulled(e) == e.op \in {"close", "destroy"} /\ e.y = "conn"

\* a recv_frame call made on the connection after it was closed
RecvOnClosed(e) == e.op = "recv_frame" /\ e.y = "closed"

\* C26 (as stated): in every module cleanup player.ws is None by the time the
\* connection is closed or the player destroyed, and under every interleaving
\* of a cleanup with the receiver thread the receiver never calls recv_frame
\* on a connection that has already been closed
C26_Original_NulledBeforeCloseNoRecvOnClosed ==
    /\ ~Has(ClosedUnnulled)
    /\ ~Has(RecvOnClosed)

unified == <<running, cleanup_done, server_socket, discovery_socket, destroy_calls,
             gloves_cleanup_done, array_cleanup_done, registries, ready, tasks, main_pc,
             loops, exited, counts, threads>>

\* a JSON object without the key "command"
Unspecified == "<no command>"

\* the commands that call a function of the haptics modules
HapticsCommands == {"glove", "funnel", "discrete"}

\* the values of "command" that are drawn: those of the dispatch, one that the
\* dispatch does not know, and a handshake that is not in lower case
BridgeCommands ==
    HapticsCommands \cup {"handshake", "Handshake", "pattern", "heartbeat", "frobnicate"}

BridgeMessage(kind, command, args) == [kind |-> kind, command |-> command, args |-> args]

\* datagrams: bytes that are no JSON, a JSON number, JSON objects with and
\* without a command, and haptics commands whose parameters int()/float() reject
BridgeMessages ==
    {BridgeMessage("invalid", Unspecified, "-"), BridgeMessage("number", Unspecified, "-")}
        \cup {BridgeMessage("object", c, "ok") : c \in BridgeCommands \cup {Unspecified}}
        \cup {BridgeMessage("object", c, "bad") : c \in HapticsCommands}

\* str.lower() on the commands drawn
Lower(c) == IF c = "Handshake" THEN "handshake" ELSE c

\* what a haptics function does: returns True, returns False, or raises
HapticsOutcomes == {"true", "false", "raise"}

MessageThread(m, address) ==
    [kind |-> "message", msg |-> m, address |-> address, pc |-> "ready", parent |-> 0]

PlaybackThread(i, m, address) ==
    [kind |-> "playback", msg |-> m, address |-> address, pc |-> "ready", parent |-> i]

MessagesReceived ==
    Cardinality({i \in 1..Len(bridge_threads) : bridge_threads[i].kind = "message"})

\* the process has not ended
BridgeAlive == bridge.pc # "done"

\* sock.sendto can succeed only on the bound, unclosed socket
SendOutcomes == IF bridge.sock = "open" THEN BOOLEAN ELSE {FALSE}

\* send_response: one datagram handed to sock.sendto; what sendto raises is
\* logged and swallowed (ok = FALSE)
bridge_send_response(eff, address, status, message, ok) ==
    Append(eff, Eff("sendto", status, "-", address, message, ok))

\* the outcome of a handler thread's stretch: the registry, what was done, and
\* whether a playback thread was started
Handled(cc, eff, spawn) == [connected |-> cc, eff |-> eff, spawn |-> spawn]

handle_handshake(cc, address, ok) ==
    Handled(cc \cup {address},
            bridge_send_response(<<>>, address, "success", "Handshake successful", ok),
            FALSE)

\* the haptics function each command calls
HapticsFunction(c) ==
    IF c = "glove" THEN "activate_glove_motor"
    ELSE IF c = "funnel" THEN "activate_funnelling" ELSE "activate_discrete"

\* handle_glove_command, handle_funnel_command, handle_discrete_command
handle_haptics_command(cc, m, address, out, ok) ==
    LET c == Lower(m.command)
        called == <<Eff("adapter", HapticsFunction(c), "-", address, out, out # "raise")>>
    IN  IF m.args = "bad"
        THEN Handled(cc, bridge_send_response(<<>>, address, "error",
                                               "Error handling " \o c \o " command", ok), FALSE)
        ELSE IF out = "true"
        THEN Handled(cc, bridge_send_response(called, address, "success",
                                               "Activated " \o c, ok), FALSE)
        ELSE IF out = "false"
        THEN Handled(cc, bridge_send_response(called, address, "error",
                                               "Failed to activate " \o c, ok), FALSE)
        ELSE Handled(cc, bridge_send_response(called, address, "error",
                                               "Error handling " \o c \o " command", ok), FALSE)

\* handle_pattern_command up to pattern_thread.start(): the playback thread is
\* started, or Thread.start raises and the error is answered
handle_pattern_command(cc, address, started, ok) ==
    IF started
    THEN Handled(cc, <<Eff("start", "run_pattern_playback", "-", address, "-", TRUE)>>, TRUE)
    ELSE Handled(cc, bridge_send_response(<<>>, address, "error",
                                           "Error handling pattern command", ok), FALSE)

\* handle_pattern_command after pattern_thread.start(): the initial response
handle_pattern_command_response(address, ok) ==
    bridge_send_response(<<>>, address, "initiated", "Pattern playback initiated", ok)

handle_heartbeat_command(cc, address, ok) ==
    Handled(cc, bridge_send_response(<<>>, address, "success", "Heartbeat acknowledged", ok),
            FALSE)

\* handle_message without the check of connected_clients
handle_message_unchecked(cc, m, address, out, ok, started) ==
    LET error(text) == Handled(cc, bridge_send_response(<<>>, address, "error", text, ok), FALSE)
    IN  IF m.kind = "invalid" THEN error("Invalid JSON data")
        ELSE IF m.kind = "number" THEN error("Error handling message")
        ELSE IF m.command = "handshake" THEN handle_handshake(cc, address, ok)
        ELSE IF m.command = Unspecified THEN error("No command specified")
        ELSE IF Lower(m.command) \in HapticsCommands
        THEN handle_haptics_command(cc, m, address, out, ok)
        ELSE IF Lower(m.command) = "pattern"
        THEN handle_pattern_command(cc, address, started, ok)
        ELSE IF Lower(m.command) = "heartbeat" THEN handle_heartbeat_command(cc, address, ok)
        ELSE error("Unknown command: " \o Lower(m.command))

\* handle_message, up to the return of the handler it dispatches to (for a
\* pattern command: up to pattern_thread.start())
handle_message(cc, m, address, out, ok, started) ==
    LET error(text) == Handled(cc, bridge_send_response(<<>>, address, "error", text, ok), FALSE)
    IN  IF m.kind = "invalid" THEN error("Invalid JSON data")
        ELSE IF m.kind = "number" THEN error("Error handling message")
        ELSE IF m.command = "handshake" THEN handle_handshake(cc, address, ok)
        ELSE IF address \notin cc THEN error("Not connected. Please send handshake first.")
        ELSE IF m.command = Unspecified THEN error("No command specified")
        ELSE IF Lower(m.command) \in HapticsCommands
        THEN handle_haptics_command(cc, m, address, out, ok)
        ELSE IF Lower(m.command) = "pattern"
        THEN handle_pattern_command(cc, address, started, ok)
        ELSE IF Lower(m.command) = "heartbeat" THEN handle_heartbeat_command(cc, address, ok)
        ELSE error("Unknown command: " \o Lower(m.command))

\* run_pattern_playback: load_and_play_tact_file returns or raises, and the
\* terminal response is sent
run_pattern_playback(address, out, ok) ==
    LET played == <<Eff("adapter", "load_and_play_tact_file", "-", address, out, out # "raise")>>
    IN  IF out = "raise"
        THEN bridge_send_response(played, address, "error", "Error during pattern playback", ok)
        ELSE bridge_send_response(played, address, "success", "Pattern playback completed", ok)

\* cleanup(): the socket is closed if there is one, then the three module
\* cleanups run
bridge_cleanup_effects(b) ==
    (IF b.sock = "none" THEN <<>> ELSE <<Eff("close", "sock", "-", "-", "-", TRUE)>>)
        \o <<Eff("cleanup", "haptics_gloves", "-", "-", "-", TRUE),
             Eff("cleanup", "haptics_motor_control", "-", "-", "-", TRUE),
             Eff("cleanup", "pattern_player", "-", "-", "-", TRUE)>>

bridge_cleanup(b) == [b EXCEPT !.sock = IF @ = "none" THEN "none" ELSE "closed"]

\* main() up to the loop of start_udp_server: the start-up block runs through
\* and the socket is bound; or the start-up block raises; or bind raises and
\* start_udp_server closes the socket it created and returns
BridgeStart ==
    /\ bridge.pc = "startup" /\ bridge.handlers = 0
    /\ \E outcome \in {"bound", "startup raised", "bind raised"} :
         bridge' = IF outcome = "bound" THEN [bridge EXCEPT !.pc = "serving", !.sock = "open"]
                   ELSE IF outcome = "bind raised"
                   THEN [bridge EXCEPT !.pc = "finally", !.sock = "closed"]
                   ELSE [bridge EXCEPT !.pc = "finally"]
    /\ effects' = <<>>
    /\ UNCHANGED <<connected_clients, bridge_threads, unified>>

\* start_udp_server's loop: a datagram is received and its thread started
BridgeReceiveOf(M) ==
    /\ bridge.pc = "serving" /\ bridge.handlers = 0 /\ bridge.running
    /\ MessagesReceived < MaxInputs
    /\ \E m \in M, address \in Addrs :
         bridge_threads' = Append(bridge_threads, MessageThread(m, address))
    /\ effects' = <<>>
    /\ UNCHANGED <<connected_clients, bridge, unified>>

BridgeReceive == BridgeReceiveOf(BridgeMessages)

\* a message thread runs handle_message; for a pattern command it runs up to
\* pattern_thread.start() and then, in a later stretch, sends the initial response
MessageStep ==
    /\ BridgeAlive
    /\ \E i \in 1..Len(bridge_threads) :
         LET th == bridge_threads[i]
         IN  /\ th.kind = "message"
             /\ \/ /\ th.pc = "ready"
                   /\ \E out \in HapticsOutcomes, ok \in SendOutcomes, started \in BOOLEAN :
                        LET h == handle_message(connected_clients, th.msg, th.address,
                                                out, ok, started)
                        IN  /\ connected_clients' = h.connected
                            /\ effects' = h.eff
                            /\ bridge_threads' =
                                 IF h.spawn
                                 THEN Append([bridge_threads EXCEPT ![i].pc = "started"],
                                             PlaybackThread(i, th.msg, th.address))
                                 ELSE [bridge_threads EXCEPT ![i].pc = "done"]
                \/ /\ th.pc = "started"
                   /\ \E ok \in SendOutcomes :
                        effects' = handle_pattern_command_response(th.address, ok)
                   /\ bridge_threads' = [bridge_threads EXCEPT ![i].pc = "done"]
                   /\ UNCHANGED connected_clients
    /\ UNCHANGED <<bridge, unified>>

\* a playback thread runs run_pattern_playback
RunPatternPlayback ==
    /\ BridgeAlive
    /\ \E j \in 1..Len(bridge_threads) :
         /\ bridge_threads[j].kind = "playback" /\ bridge_threads[j].pc = "ready"
         /\ \E out \in {"return", "raise"}, ok \in SendOutcomes :
              effects' = run_pattern_playback(bridge_threads[j].address, out, ok)
         /\ bridge_threads' = [bridge_threads EXCEPT ![j].pc = "done"]
    /\ UNCHANGED <<connected_clients, bridge, unified>>

\* main()'s finally block, statement by statement: the test of running, the
\* assignment, the call of cleanup(), and cleanup() running through
BridgeFinallyStep ==
    /\ bridge.handlers = 0
    /\ \/ /\ bridge.pc = "finally"
          /\ bridge' = [bridge EXCEPT !.pc = IF bridge.running THEN "assign" ELSE "done"]
          /\ effects' = <<>>
       \/ /\ bridge.pc = "assign"
          /\ bridge' = [bridge EXCEPT !.running = FALSE, !.pc = "call"]
          /\ effects' = <<Eff("set_running", "False", "-", "-", "-", TRUE)>>
       \/ /\ bridge.pc = "call"
          /\ bridge' = [bridge EXCEPT !.cleanups = @ + 1, !.pc = "cleaning"]
          /\ effects' = <<Eff("call", "cleanup", "main", "-", "-", TRUE)>>
       \/ /\ bridge.pc = "cleaning"
          /\ bridge' = [bridge_cleanup(bridge) EXCEPT !.pc = "done"]
          /\ effects' = bridge_cleanup_effects(bridge)
    /\ UNCHANGED <<connected_clients, bridge_threads, unified>>

\* signal_handler up to its call of cleanup(): running = False, and cleanup()
\* is entered
signal_handler(b) == [b EXCEPT !.running = FALSE, !.cleanups = @ + 1, !.handlers = @ + 1]

\* SIGINT: the handler installed by main()'s first statement runs in the main
\* thread, between two statements of whatever the main thread is executing
\* (a handler that is itself inside cleanup() included)
BridgeSignal ==
    /\ BridgeAlive
    /\ bridge.signals < MaxInputs
    /\ bridge' = [signal_handler(bridge) EXCEPT !.signals = @ + 1]
    /\ effects' = <<Eff("set_running", "False", "-", "-", "-", TRUE),
                    Eff("call", "cleanup", "signal_handler", "-", "-", TRUE)>>
    /\ UNCHANGED <<connected_clients, bridge_threads, unified>>

\* the handler's cleanup() runs through and sys.exit(0) raises SystemExit, which
\* no except clause of the main thread catches: the process ends and its
\* daemon threads with it
BridgeHandlerExit ==
    /\ BridgeAlive
    /\ bridge.handlers > 0
    /\ bridge' = [bridge_cleanup(bridge) EXCEPT !.pc = "done", !.handlers = 0]
    /\ effects' = Append(bridge_cleanup_effects(bridge), Eff("exit", "0", "-", "-", "-", TRUE))
    /\ UNCHANGED <<connected_clients, bridge_threads, unified>>

BridgeNext ==
    \/ BridgeStart
    \/ BridgeReceive
    \/ MessageStep
    \/ RunPatternPlayback
    \/ BridgeFinallyStep
    \/ BridgeSignal
    \/ BridgeHandlerExit

BridgeSpec == Init /\ [][BridgeNext]_vars

\* the datagrams of the connection check: no JSON, a JSON number, objects
\* without a command, handshakes, and glove and heartbeat commands
ConnectMessages ==
    {m \in BridgeMessages :
        m.args # "bad" /\ m.command \notin {"funnel", "discrete", "pattern", "frobnicate"}}

ConnectReceive == BridgeReceiveOf(ConnectMessages)

ConnectNext ==
    \/ BridgeStart
    \/ ConnectReceive
    \/ MessageStep
    \/ BridgeFinallyStep
    \/ BridgeSignal
    \/ BridgeHandlerExit

ConnectSpec == Init /\ [][ConnectNext]_vars

\* a datagram that parsed to a JSON object and is no handshake
NonHandshake(m) == m.kind = "object" /\ m.command # "handshake"

\* the step is message thread i running handle_message
Handling(i) ==
    /\ bridge_threads[i].kind = "message"
    /\ bridge_threads[i].pc = "ready"
    /\ bridge_threads'[i].pc # "ready"

NotConnectedText == "Not connected. Please send handshake first."

\* C38: in the legacy bridge a non-handshake command from an address that is
\* not in connected_clients when its thread handles it makes the thread hand
\* exactly one response to sendto, the error 'Not connected. Please send
\* handshake first.' addressed to the sender, and call no haptics function;
\* and no step of the process ever removes an address from connected_clients.
C38_UnconnectedRefusedConnectedStays ==
    [][/\ connected_clients \subseteq connected_clients'
       /\ \A i \in 1..Len(bridge_threads) :
            (/\ Handling(i)
             /\ NonHandshake(bridge_threads[i].msg)
             /\ bridge_threads[i].address \notin connected_clients)
                => /\ Len(effects') = 1
                   /\ effects'[1].op = "sendto" /\ effects'[1].x = "error"
                   /\ effects'[1].to = bridge_threads[i].address
                   /\ effects'[1].r = NotConnectedText
                   /\ connected_clients' = connected_clients]_vars

\* C38 witness: a2 has sent a handshake and is still in connected_clients when
\* a glove command from a1, which never sent one, has just been refused
C38_Witness ==
    /\ connected_clients = {"a2"}
    /\ \E i, j \in 1..Len(bridge_threads) :
         /\ i < j
         /\ bridge_threads[i].msg.command = "handshake" /\ bridge_threads[i].address = "a2"
         /\ bridge_threads[i].pc = "done"
         /\ bridge_threads[j].msg.command = "glove" /\ bridge_threads[j].address = "a1"
         /\ bridge_threads[j].pc = "done"
    /\ Len(effects) = 1 /\ effects[1].op = "sendto" /\ effects[1].to = "a1"
    /\ effects[1].r = NotConnectedText /\ effects[1].ok

\* C39 (as stated): in the legacy bridge the playback thread of a pattern
\* command has never sent its terminal response (success or error) while the
\* handler thread that started it has yet to send the 'initiated' response
C39_Original_InitiatedBeforeTerminal ==
    \A j \in 1..Len(bridge_threads) :
        (bridge_threads[j].kind = "playback" /\ bridge_threads[j].pc = "done")
            => bridge_threads[bridge_threads[j].parent].pc = "done"

\* C40 (as stated): in the legacy bridge cleanup() is invoked at most once per
\* process, whatever the interleaving of the SIGINT handler with main()'s
\* finally block
C40_Original_CleanupAtMostOnce == bridge.cleanups <= 1

====
